---- MODULE Spec2Model ----
(***************************************************************************)
(* The core of the OMS application: the EventBus (core/EventBus.js) and    *)
(* the Store (core/Store.js).  JavaScript runs one call stack to           *)
(* completion, so the model keeps an explicit call stack: while it is not  *)
(* empty the only enabled step is the next step of the running handler;    *)
(* when it is empty the environment makes the next top-level call.         *)
(* Callbacks (bus listeners, store subscribers, mutation functions) are    *)
(* inputs of the program and are drawn from small sets of behaviours.      *)
(* An asynchronous action is a task: it runs on the call stack up to an    *)
(* await, and goes on later, on an empty call stack.  The arrays of the    *)
(* state set up by modules/DataModule.js are kept by identity in a heap.   *)
(***************************************************************************)
EXTENDS Integers, Sequences, FiniteSets, TLC

\* ---------------------------------------------------------------- bounds
MaxListeners == 2       \* listeners registered by top-level on() calls
MaxObservers == 1       \* listeners registered on store:mutation
MaxEmits == 2           \* top-level emit() calls
MaxCommits == 2         \* top-level commit() calls
MaxAppends == 3         \* top-level commit() calls when only the history is watched
MaxSubscribers == 2     \* top-level store.subscribe() calls
MaxSize == 2            \* largest argument of setMaxHistorySize
MaxDispatches == 2      \* top-level dispatch() calls
MaxCalls == 3           \* top-level commit(), dispatch() and getGetter() calls
MaxRuns == 2            \* runMigrations() calls, the one of the constructor included
MaxDepth == 2           \* nested function calls the call stack has room for
MaxModuleCalls == 2     \* top-level calls of module methods and of dispatch()
                        \* together, where getters are read

\* ------------------------------------------------------- program constants
DefaultMaxHistorySize == 50

Null == "null"
\* null and undefined, where the program expects an object
NoObject == <<>>
None == 0 - 1

\* ------------------------------------------------------------ the inputs
\* Topics used by the callers of the bus.
UserTopic == "x"
MutationTopic == "store:mutation"

\* Payloads of user publishes and of commits.
Data == {1, 2}

\* Listener callbacks, named by what their body does when called with d:
\*   ok      d => {}
\*   throw   d => { throw new Error() }
\*   reemit  d => { if (d === 1) eventBus.emit(topic, 2) }
\*   sub     d => { if (d === 1) eventBus.on(topic, ok) }
\* The callers of the user topic register the last three (reemit and sub
\* do what ok does when called with 2); sub registers ok.
Callbacks == {"throw", "reemit", "sub"}

\* The options argument of on(): {once, context}.
Options == {[once |-> FALSE, context |-> Null], [once |-> TRUE, context |-> Null]}

\* Store subscribers, named by what their body does:
\*   ok        (prev, next, m) => {}
\*   throw     (prev, next, m) => { throw new Error() }
\*   recommit  (prev, next, m) => { if (m.payload === 1) store.commit('SET_COUNT', 2) }
SubscriberCallbacks == {"ok", "throw", "recommit"}

\* Mutation functions, named by what their body does:
\*   setCount        (state, p) => { state.count = p }
\*   setBothFailing  (state, p) => { state.count = p; throw new Error(); state.flag = p }
\*   pushUser        (state, user) => { state.users.push(user) }
\*   pushProcess     (state, process) => { state.processes.push(process) }
\*   removeUser      (state, id) => { state.users = state.users.filter(u => u.id !== id) }
\* The (name, function) pairs the modules register, and the names committed.
Registrations == {<<"SET_COUNT", "setCount">>, <<"SET_BOTH", "setBothFailing">>}
MutationNames == {"SET_COUNT", "SET_BOTH"}

\* Action functions, named by what their body does:
\*   incrementTwice   (ctx) => { ctx.commit('SET_COUNT', ctx.state.count + 1);
\*                               ctx.commit('SET_COUNT', ctx.state.count + 1) }
\*   readAwaitWrite   async (ctx) => { const v = ctx.state.count; await delay();
\*                                     ctx.commit('SET_COUNT', v + 1); return v + 1 }
\*   commitThenThrow  async (ctx, p) => { ctx.commit('SET_COUNT', p); throw new Error() }
\*   readDouble       async (ctx) => { await delay(); const v = ctx.getters.double; return v }
\* The (name, function) pairs registered, and the names dispatched.
ActionRegistrations == {<<"incrementTwice", "incrementTwice">>,
                        <<"readAwaitWrite", "readAwaitWrite">>,
                        <<"commitThenThrow", "commitThenThrow">>}
ActionNames == {"incrementTwice", "readAwaitWrite", "commitThenThrow"}
ActionData == {1}
ActionTopic == "store:action"

\* Getter functions, named by what their body does:
\*   count     state => state.count
\*   negCount  state => -state.count
\*   double    (state, getters) => getters.count * 2
\* The (name, function) pairs registered, and the names read.
GetterRegistrations == {<<"count", "count">>, <<"double", "double">>}
GetterNames == {"count", "double"}

\* What DataModule.setupStore registers (the user and process entries):
\* ADD_USER and ADD_PROCESS push in place, REMOVE_USER filters; the getter
\* users is state => state.users, the getter processes is
\* state => state.processes.sort((a, b) => a.position - b.position).
\* A user stands for its id and a process for its position.
DataMutations ==
    [ADD_USER |-> "pushUser", REMOVE_USER |-> "removeUser", ADD_PROCESS |-> "pushProcess"]
DataActions == [saveData |-> "saveData", loadData |-> "loadData"]
DataGetters == [users |-> "users", processes |-> "sortedProcesses"]
DataMutationNames == {"ADD_USER", "REMOVE_USER", "ADD_PROCESS"}
DataGetterNames == {"users", "processes"}
DefaultAdmin == 0

\* The keys of the state whose value is an array.
RefKeys == {"users", "processes", "products", "orders"}

\* What DataModule.setupStore registers, on the users, products and orders as
\* the modules build them, which are records with an id (a process stands
\* for its id, which is its position): SET_ assigns the array it is given,
\* ADD_ pushes in place, UPDATE_ assigns {...old, ...updated} at the index
\* of the id when there is one, REMOVE_ assigns a filter.  The getters
\* users, products and orders give the array of the state.  (UPDATE_PROCESS
\* and SET_LOADING, and the getters that give a function, are left out:
\* the methods read through the arrays.)
StoreMutations ==
    [SET_USERS |-> "setUsers", ADD_USER |-> "pushUser", UPDATE_USER |-> "updateUser",
     REMOVE_USER |-> "removeUserById",
     SET_PROCESSES |-> "setProcesses", ADD_PROCESS |-> "pushProcess",
     REMOVE_PROCESS |-> "removeProcess",
     SET_PRODUCTS |-> "setProducts", ADD_PRODUCT |-> "pushProduct",
     UPDATE_PRODUCT |-> "updateProduct",
     SET_ORDERS |-> "setOrders", ADD_ORDER |-> "pushOrder", UPDATE_ORDER |-> "updateOrder",
     REMOVE_ORDER |-> "removeOrder"]
StoreGetters ==
    [users |-> "users", processes |-> "sortedProcesses", products |-> "products",
     orders |-> "orders"]

\* String.prototype.includes
Includes(string, part) ==
    \E i \in 1..(Len(string) - Len(part) + 1) :
        SubSeq(string, i, i + Len(part) - 1) = part

\* the condition of the store:mutation listener of DataModule on the name
\* of the mutation
Autosaved(name) ==
    \/ Includes(name, "ADD_")
    \/ Includes(name, "UPDATE_")
    \/ Includes(name, "REMOVE_")
    \/ Includes(name, "SET_")

\* The values Date.now() gives.
Timestamps == {1000}

\* -------------------------------------------------- the users and the storage
\* constants.js: USER_ROLES, DEFAULT_ADMIN (the name is 'Администратор' in
\* the source; a date string stands for the time it was made from)
USER_ROLES == [ADMIN |-> "admin", MANAGER |-> "manager", OPERATOR |-> "operator",
               VIEWER |-> "viewer"]
ToISOString(time) == <<"iso", time>>
DEFAULT_ADMIN ==
    [id |-> 1, name |-> "Administrator", email |-> "admin@oms.local",
     phone |-> "+7 777 777 7777", password |-> "1488", role |-> USER_ROLES.ADMIN,
     processes |-> <<>>, isActive |-> TRUE, createdAt |-> ToISOString(0)]

\* a copy of the record without the field
Without(record, field) == [k \in DOMAIN record \ {field} |-> record[k]]

\* what authenticateUser returns for a user it found: a copy without the
\* password, with the time of the login
Authenticated(user, now) ==
    [lastLoginAt |-> ToISOString(now)] @@ Without(user, "password")

\* A version string, as the UTF-16 code units of 'major.minor.patch'.
VersionString(major, minor, patch) == <<48 + major, 46, 48 + minor, 46, 48 + patch>>

\* the prefix of the keys of UserStorage
UserPrefix == "oms_user_"
AppPrefix == "oms_app_"

\* constants.js: EVENTS, STORAGE_KEYS, VALIDATION (the parts used here)
EVENTS ==
    [USER_LOGIN |-> "user:login", USER_LOGOUT |-> "user:logout",
     USER_CREATED |-> "user:created", USER_UPDATED |-> "user:updated",
     ORDER_CREATED |-> "order:created", ORDER_UPDATED |-> "order:updated",
     ORDER_DELETED |-> "order:deleted", ORDER_MOVED |-> "order:moved",
     ORDER_STATUS_CHANGED |-> "order:statusChanged",
     PROCESS_CREATED |-> "process:created", PROCESS_UPDATED |-> "process:updated",
     PROCESS_DELETED |-> "process:deleted",
     LOADING_START |-> "loading:start",
     LOADING_END |-> "loading:end", APP_INIT |-> "app:init", ERROR |-> "app:error"]
STORAGE_KEYS ==
    [ORDERS |-> "orders", PROCESSES |-> "processes", PRODUCTS |-> "products",
     USERS |-> "users", CURRENT_USER |-> "currentUser"]
VALIDATION ==
    [CLIENT_NAME |-> [MIN_LENGTH |-> 2, MAX_LENGTH |-> 100],
     PASSWORD |-> [MIN_LENGTH |-> 4, MAX_LENGTH |-> 50]]
ORDER_STATUS ==
    [CREATED |-> "created", IN_PROGRESS |-> "in_progress", COMPLETED |-> "completed",
     CANCELLED |-> "cancelled", DEFECT |-> "defect"]

\* the mutations, actions and getters AuthModule.setupStore() registers, and
\* the actions UserModule.setupStore() registers (createUser is the one kept)
AuthMutations ==
    [SET_CURRENT_USER |-> "setCurrentUser", CLEAR_CURRENT_USER |-> "clearCurrentUser"]
AuthActions == [login |-> "login", logout |-> "logout"]
AuthGetters == [currentUser |-> "currentUser", isAdmin |-> "isAdmin"]
UserActions == [createUser |-> "createUser", updateUser |-> "updateUser"]

\* the actions OrderModule.setupStore() registers, and of the actions
\* ProcessModule.setupStore() registers the one kept
OrderActions ==
    [createOrder |-> "createOrder", updateOrder |-> "updateOrder",
     deleteOrder |-> "deleteOrder", moveOrder |-> "moveOrder",
     sendOrderToDefect |-> "sendOrderToDefect", fixDefectOrder |-> "fixDefectOrder"]
ProcessActions == [deleteProcess |-> "deleteProcess"]

\* the methods of authModule that are called directly, and their bodies
Methods ==
    ("authModule.login" :> "login") @@ ("authModule.logout" :> "logout")
    @@ ("authModule.registerUser" :> "registerUser")
    @@ ("dataModule.loadData" :> "loadData")
    @@ ("router.handleRoute" :> "handleRoute")

\* the values that match the patterns of email and of phone
WellFormed ==
    {"admin@oms.local", "operator@oms.local", "viewer@oms.local", "+77777777778",
     "+77777777779"}

\* what login is called with: the password of the administrator, a wrong one
Credentials ==
    {[username |-> "Administrator", password |-> "1488"],
     [username |-> "Administrator", password |-> "0000"]}

\* what registerUser and createUser are called with: a new operator, the
\* name of the administrator again, a password that is too short
UserData ==
    {[name |-> "Operator", email |-> "", phone |-> "", password |-> "pass",
      role |-> USER_ROLES.OPERATOR],
     [name |-> "Administrator", email |-> "", phone |-> "", password |-> "pass",
      role |-> USER_ROLES.OPERATOR],
     [name |-> "Viewer", email |-> "", phone |-> "", password |-> "123",
      role |-> USER_ROLES.VIEWER]}

\* the results a method returns when it fails, by the case (the source
\* gives each a message)
Failures ==
    {"badCredentials", "loginFailed", "logoutFailed", "denied", "invalid", "exists",
     "registerFailed", "createFailed", "notFound", "updateFailed", "refused",
     "orderFailed", "processFailed"}

\* the users an earlier run of the application may have saved
SavedUsers == {Authenticated(DEFAULT_ADMIN, 0)}

\* the versions and the functions addMigration is called with
MigrationVersions == {VersionString(0, 9, 0), VersionString(1, 0, 0), VersionString(1, 1, 0)}
MigrationFns == {"migrate_1_0_0", "moveOldKey"}

\* The seed state the store is constructed with.
InitialState == [count |-> 0, flag |-> 0]

VARIABLES
    events,          \* EventBus.events: topic -> listeners in insertion order
    lst,             \* the listener objects created by on(), by identity
    state,           \* Store.state
    mutations,       \* Store.mutations: name -> function
    subscribers,     \* Store.subscribers in insertion order
    isCommitting,    \* Store.isCommitting
    history,         \* Store.history
    maxHistorySize,  \* Store.maxHistorySize
    stack,           \* the call stack of emit and commit calls in progress
    ret,             \* how the last finished emit or commit call ended
    budget,          \* top-level calls made so far, per kind
    lifetime,        \* per listener: round counter at registration/removal, calls
    rounds,          \* per emit round: topic, status, listeners run, listeners that raised
    commits,         \* per successful mutation: entry, status, who was notified
    published,       \* the commits whose store:mutation event was published, in order
    lastCall,        \* the last top-level store call, the store as it was before
                     \* it, and the number of commits applied before the
                     \* history was last cleared or resized
    actions,         \* Store.actions: name -> function
    getters,         \* Store.getters: name -> function
    heap,            \* the arrays the state refers to, by identity
    tasks,           \* the dispatch calls made so far: where each one is, and
                     \* what it did
    actionEvents,    \* the store:action events published, in order
    reads,           \* the getter reads made so far, with the state they saw
    latest,          \* per registry and name: the function registered last,
                     \* and whether it took the place of another one
    localStorage,    \* the localStorage of the browser: full key -> string
    userStorage,     \* the UserStorage instance of utils/storage.js
    authModule,      \* the AuthModule instance of modules/AuthModule.js
    appStorage,      \* the AppStorage instance of utils/storage.js
    router,          \* the Router instance of core/Router.js
    window,          \* window.location.hash and the hashchange events to come
    storageLog       \* the runMigrations() calls made so far, and what they ran

busVars == <<events, lst>>
storeVars == <<state, mutations, subscribers, isCommitting, history, maxHistorySize>>
ghostBus == <<lifetime, rounds>>
ghostStore == <<commits, published>>
dispatchVars == <<actions, getters, tasks, actionEvents, reads, latest>>
appVars == <<appStorage, router, window>>
moduleVars == <<localStorage, userStorage, authModule, storageLog, appStorage, router,
               window>>
coreVars == <<events, lst, state, mutations, subscribers, isCommitting, history,
              maxHistorySize, stack, ret, budget, lifetime, rounds, commits,
              published, lastCall, actions, getters, heap, tasks, actionEvents,
              reads, latest>>
vars == <<events, lst, state, mutations, subscribers, isCommitting, history,
          maxHistorySize, stack, ret, budget, lifetime, rounds, commits,
          published, lastCall, actions, getters, heap, tasks, actionEvents,
          reads, latest, localStorage, userStorage, authModule, storageLog,
          appStorage, router, window>>

\* ------------------------------------------------------------- helpers
Min(S) == CHOOSE x \in S : \A y \in S : x <= y
Max(S) == CHOOSE x \in S : \A y \in S : x >= y
Remove(s, x) == SelectSeq(s, LAMBDA y : y # x)
Range(s) == {s[i] : i \in 1..Len(s)}
Top == stack[Len(stack)]
Below == SubSeq(stack, 1, Len(stack) - 1)
Idle == stack = <<>>

\* Array.prototype.sort by position, on arrays of positions
Insert(x, sorted) ==
    LET k == Cardinality({i \in 1..Len(sorted) : sorted[i] <= x})
    IN SubSeq(sorted, 1, k) \o <<x>> \o SubSeq(sorted, k + 1, Len(sorted))
RECURSIVE Sort(_)
Sort(arr) ==
    IF arr = <<>> THEN <<>>
    ELSE Insert(arr[Len(arr)], Sort(SubSeq(arr, 1, Len(arr) - 1)))

\* what the record s shows when the arrays are h: its keys, with the
\* content of the arrays it refers to
Shows(s, h) == [k \in DOMAIN s |-> IF k \in RefKeys THEN h[s[k]] ELSE s[k]]

\* Array.prototype.slice(start): a negative start counts from the end,
\* and -0 is 0.
Slice(arr, start) ==
    LET from == IF start < 0 THEN Max({Len(arr) + start, 0})
                ELSE Min({start, Len(arr)})
    IN SubSeq(arr, from + 1, Len(arr))

\* ================================================================ EventBus

\* the listener object built by on()
Listener(callback, options) ==
    [callback |-> callback, once |-> options.once, context |-> options.context]

\* this.events after on(event, ...) added the listener object id
EventsOn(event, id) ==
    IF event \in DOMAIN events
    THEN [events EXCEPT ![event] = Append(@, id)]
    ELSE events @@ (event :> <<id>>)

\* the listener off(event, callback) removes: the first one of the topic
\* whose callback is this callback; None when there is none
ToRemove(event, callback) ==
    IF event \notin DOMAIN events THEN None
    ELSE LET m == {i \in 1..Len(events[event]) :
                     lst[events[event][i]].callback = callback}
         IN IF m = {} THEN None ELSE events[event][Min(m)]

\* this.events.get(event).delete(listener)
EventsDelete(event, id) ==
    IF event \in DOMAIN events
    THEN [events EXCEPT ![event] = Remove(@, id)]
    ELSE events

\* ghost: stamp the removal of a listener that is registered
Stamp(lt, event, id) ==
    IF id # None /\ event \in DOMAIN events /\ id \in Range(events[event])
    THEN [lt EXCEPT ![id].removed = Len(rounds)]
    ELSE lt

\* ghost: the rounds in progress on a topic
Running(event) ==
    {stack[k].round : k \in {j \in 1..Len(stack) :
                               stack[j].kind = "emit" /\ stack[j].event = event}}

\* ghost: the record of a listener that is being registered
Born(event) ==
    [event |-> event, born |-> Len(rounds), during |-> Running(event),
     removed |-> None, calls |-> 0]

\* ghost: the listener id was called in the round of frame f
Called(lt, id) == [lt EXCEPT ![id].calls = @ + 1]
Ran(rs, f, id) ==
    [rs EXCEPT ![f.round].ran = Append(@, id), ![f.round].got = Append(@, f.data)]

\* what the body of a callback does when called with data d
CallbackBody(callback, d) ==
    CASE callback = "ok" -> "return"
      [] callback = "throw" -> "throw"
      [] callback = "reemit" -> IF d = 1 THEN "emit" ELSE "return"
      [] callback = "sub" -> IF d = 1 THEN "on" ELSE "return"
      [] callback \in {"navigate", "refreshUserList", "refreshOrderBoard",
                       "refreshProcessBoard"} -> "return"
      [] callback = "autosave" -> IF Autosaved(d.name) THEN "save" ELSE "return"
      [] callback \in {"pushHome", "pushLogin"} -> "push"
      [] callback = "logout" -> "logout"

\* on(event, callback, options), called from the top level
On(event, callback, options) ==
    /\ Idle
    /\ budget' = [budget EXCEPT !.on = @ + 1]
    /\ lst' = Append(lst, Listener(callback, options))
    /\ events' = EventsOn(event, Len(lst) + 1)
    /\ lifetime' = Append(lifetime, Born(event))
    /\ UNCHANGED <<storeVars, stack, ret, rounds, ghostStore, lastCall>>
    /\ UNCHANGED <<dispatchVars, heap>>
    /\ UNCHANGED moduleVars

\* off(event, callback), called from the top level
Off(event, callback) ==
    /\ Idle
    /\ events' = EventsDelete(event, ToRemove(event, callback))
    /\ lifetime' = Stamp(lifetime, event, ToRemove(event, callback))
    /\ UNCHANGED <<lst, storeVars, stack, ret, budget, rounds, ghostStore, lastCall>>
    /\ UNCHANGED <<dispatchVars, heap>>
    /\ UNCHANGED moduleVars

\* the function on() returned for the listener id, called from the top
\* level: () => this.off(event, callback), with the topic and the callback
\* of that on() call
Unsubscribe(id) == Off(lifetime[id].event, lst[id].callback)

\* faulty variant: the listeners are called newest first
EmitFrameNewestFirst(event, data) ==
    [kind |-> "emit", event |-> event, data |-> data,
     listeners |-> [i \in 1..Len(events[event]) |->
                       events[event][Len(events[event]) + 1 - i]],
     i |-> 1, pc |-> "iter", round |-> Len(rounds) + 1]

\* the frame of an emit call past its has() check: the snapshot
\* Array.from(this.events.get(event)) and the position of forEach in it
EmitFrame(event, data) ==
    [kind |-> "emit", event |-> event, data |-> data,
     listeners |-> events[event], i |-> 1, pc |-> "iter",
     round |-> Len(rounds) + 1]

\* ghost: the record of the round an emit call starts: the topic and the
\* payload, the listeners called and what each was called with
Round(event, data) ==
    [event |-> event, data |-> data, status |-> "running", ran |-> <<>>, got |-> <<>>,
     raised |-> {}]

\* faulty variant: forEach walks the live set of the topic instead of the snapshot
ListenersLive(f) == events[f.event]

\* the array forEach walks in the frame f
Listeners(f) == f.listeners

\* emit(event, data), called from the top level
Emit(event, data) ==
    /\ Idle
    /\ budget.emit < MaxEmits
    /\ budget' = [budget EXCEPT !.emit = @ + 1]
    /\ IF event \notin DOMAIN events
       THEN /\ ret' = "returned"
            /\ UNCHANGED <<stack, rounds>>
       ELSE /\ stack' = <<EmitFrame(event, data)>>
            /\ rounds' = Append(rounds, Round(event, data))
            /\ ret' = "none"
    /\ UNCHANGED <<busVars, storeVars, lifetime, ghostStore, lastCall>>
    /\ UNCHANGED <<dispatchVars, heap>>
    /\ UNCHANGED moduleVars

\* forEach is at a listener of the frame on top of the stack
AtListener ==
    /\ ~Idle
    /\ Top.kind = "emit"
    /\ Top.pc = "iter"
    /\ Top.i <= Len(Listeners(Top))

Current == Listeners(Top)[Top.i]

\* the frame on top after its current listener was dealt with
Advance == [Top EXCEPT !.i = @ + 1, !.pc = "iter"]

\* the listener is called and returns (registering a listener first when
\* its body does); a once listener is then deleted
ListenerReturns ==
    /\ AtListener
    /\ LET id == Current
           body == CallbackBody(lst[id].callback, Top.data)
           new == Len(lst) + 1
           added == IF body = "on" THEN EventsOn(Top.event, new) ELSE events
       IN /\ body \in {"return", "on"}
          /\ lst' = IF body = "on"
                    THEN Append(lst, Listener("ok", [once |-> FALSE, context |-> Null]))
                    ELSE lst
          /\ events' = IF lst[id].once
                       THEN [added EXCEPT ![Top.event] = Remove(@, id)]
                       ELSE added
          /\ lifetime' =
               LET lt == Called(IF lst[id].once THEN Stamp(lifetime, Top.event, id)
                                ELSE lifetime, id)
               IN IF body = "on" THEN Append(lt, Born(Top.event)) ELSE lt
          /\ rounds' = Ran(rounds, Top, id)
    /\ stack' = Append(Below, Advance)
    /\ UNCHANGED <<storeVars, ret, budget, ghostStore, lastCall>>
    /\ UNCHANGED <<dispatchVars, heap>>
    /\ UNCHANGED moduleVars

\* faulty variant: no catch block: the error of the listener ends the emit call
ListenerThrowsUncaught ==
    /\ AtListener
    /\ CallbackBody(lst[Current].callback, Top.data) = "throw"
    /\ lifetime' = Called(lifetime, Current)
    /\ rounds' = [Ran(rounds, Top, Current) EXCEPT ![Top.round].raised = @ \cup {Current},
                                                  ![Top.round].status = "threw"]
    /\ stack' = Below
    /\ ret' = "threw"
    /\ UNCHANGED <<busVars, storeVars, budget, ghostStore, lastCall>>
    /\ UNCHANGED <<dispatchVars, heap>>
    /\ UNCHANGED moduleVars

\* the listener is called and raises: the catch block logs the error and
\* forEach goes on
ListenerThrows ==
    /\ AtListener
    /\ CallbackBody(lst[Current].callback, Top.data) = "throw"
    /\ lifetime' = Called(lifetime, Current)
    /\ rounds' = [Ran(rounds, Top, Current) EXCEPT ![Top.round].raised = @ \cup {Current}]
    /\ stack' = Append(Below, Advance)
    /\ UNCHANGED <<busVars, storeVars, ret, budget, ghostStore, lastCall>>
    /\ UNCHANGED <<dispatchVars, heap>>
    /\ UNCHANGED moduleVars

\* the listener is called and publishes on its own topic: a nested round
ListenerEmits ==
    /\ AtListener
    /\ CallbackBody(lst[Current].callback, Top.data) = "emit"
    /\ lifetime' = Called(lifetime, Current)
    /\ rounds' = Append(Ran(rounds, Top, Current), Round(Top.event, 2))
    /\ stack' = Append(Append(Below, [Top EXCEPT !.pc = "incb"]),
                       EmitFrame(Top.event, 2))
    /\ ret' = "none"
    /\ UNCHANGED <<busVars, storeVars, budget, ghostStore, lastCall>>
    /\ UNCHANGED <<dispatchVars, heap>>
    /\ UNCHANGED moduleVars

\* the nested call of the listener is over.  If it returned the listener
\* returns and a once listener is then deleted; if it raised the listener
\* raises too, into the catch block
ListenerResumes ==
    /\ ~Idle
    /\ Top.kind = "emit"
    /\ Top.pc = "incb"
    /\ LET deleted == lst[Current].once /\ ret # "threw"
       IN /\ events' = IF deleted THEN EventsDelete(Top.event, Current) ELSE events
          /\ lifetime' = IF deleted THEN Stamp(lifetime, Top.event, Current)
                         ELSE lifetime
    /\ rounds' = IF ret = "threw"
                 THEN [rounds EXCEPT ![Top.round].raised = @ \cup {Current}]
                 ELSE rounds
    /\ stack' = Append(Below, Advance)
    /\ UNCHANGED <<lst, storeVars, ret, budget, ghostStore, lastCall>>
    /\ UNCHANGED <<dispatchVars, heap>>
    /\ UNCHANGED moduleVars

\* forEach is over: emit returns to its caller
EmitReturns ==
    /\ ~Idle
    /\ Top.kind = "emit"
    /\ Top.pc = "iter"
    /\ Top.i > Len(Listeners(Top))
    /\ stack' = Below
    /\ ret' = "returned"
    /\ rounds' = [rounds EXCEPT ![Top.round].status = "returned"]
    /\ UNCHANGED <<busVars, storeVars, budget, lifetime, ghostStore, lastCall>>
    /\ UNCHANGED <<dispatchVars, heap>>
    /\ UNCHANGED moduleVars

\* =================================================================== Store

\* ghost: the function fn was registered last under the name of the registry
Latest(registry, name, fn) ==
    LET was == latest[registry]
        now == [fn |-> fn,
                replaced |-> name \in DOMAIN was /\ (was[name].replaced \/ was[name].fn # fn)]
    IN [latest EXCEPT ![registry] = IF name \in DOMAIN was
                                    THEN [was EXCEPT ![name] = now]
                                    ELSE was @@ (name :> now)]

\* ghost: the function registered last under the name, if there is one
LatestOf(registry, name) ==
    IF name \in DOMAIN latest[registry] THEN latest[registry][name]
    ELSE [fn |-> "undefined", replaced |-> FALSE]

\* faulty variant: a name that is registered keeps its first function
RegisterMutationKeepsFirst(name, mutationFn) ==
    /\ Idle
    /\ mutations' = IF name \in DOMAIN mutations
                    THEN mutations
                    ELSE mutations @@ (name :> mutationFn)
    /\ latest' = Latest("mutation", name, mutationFn)
    /\ UNCHANGED <<busVars, state, subscribers, isCommitting, history, maxHistorySize,
                   stack, ret, budget, ghostBus, ghostStore, lastCall>>
    /\ UNCHANGED <<actions, getters, tasks, actionEvents, reads, heap>>
    /\ UNCHANGED moduleVars

\* registerMutation(name, mutationFn): warns on a known name, then sets
RegisterMutation(name, mutationFn) ==
    /\ Idle
    /\ mutations' = IF name \in DOMAIN mutations
                    THEN [mutations EXCEPT ![name] = mutationFn]
                    ELSE mutations @@ (name :> mutationFn)
    /\ latest' = Latest("mutation", name, mutationFn)
    /\ UNCHANGED <<busVars, state, subscribers, isCommitting, history, maxHistorySize,
                   stack, ret, budget, ghostBus, ghostStore, lastCall>>
    /\ UNCHANGED <<actions, getters, tasks, actionEvents, reads, heap>>
    /\ UNCHANGED moduleVars

\* subscribe(callback): Set.add keeps one entry per callback
Subscribe(callback) ==
    /\ Idle
    /\ budget.subscribe < MaxSubscribers
    /\ budget' = [budget EXCEPT !.subscribe = @ + 1]
    /\ subscribers' = IF callback \in Range(subscribers) THEN subscribers
                      ELSE Append(subscribers, callback)
    /\ UNCHANGED <<busVars, state, mutations, isCommitting, history, maxHistorySize,
                   stack, ret, ghostBus, ghostStore, lastCall>>
    /\ UNCHANGED <<dispatchVars, heap>>
    /\ UNCHANGED moduleVars

\* faulty variant: the function subscribe() returned removes the subscriber
\* that subscribed first
UnsubscribeStoreFirst(callback) ==
    /\ Idle
    /\ subscribers' = SubSeq(subscribers, 2, Len(subscribers))
    /\ UNCHANGED <<busVars, state, mutations, isCommitting, history, maxHistorySize,
                   stack, ret, budget, ghostBus, ghostStore, lastCall>>
    /\ UNCHANGED <<dispatchVars, heap>>
    /\ UNCHANGED moduleVars

\* the function subscribe(callback) returned, called from the top level:
\* () => { this.subscribers.delete(callback) }
UnsubscribeStore(callback) ==
    /\ Idle
    /\ subscribers' = Remove(subscribers, callback)
    /\ UNCHANGED <<busVars, state, mutations, isCommitting, history, maxHistorySize,
                   stack, ret, budget, ghostBus, ghostStore, lastCall>>
    /\ UNCHANGED <<dispatchVars, heap>>
    /\ UNCHANGED moduleVars

\* what a mutation function does to the state s: the state it leaves and
\* whether it raised
MutationBody(mutationFn, s, payload) ==
    CASE mutationFn = "setCount" ->
           [state |-> [s EXCEPT !.count = payload], threw |-> FALSE]
      [] mutationFn = "setBothFailing" ->
           [state |-> [s EXCEPT !.count = payload], threw |-> TRUE]
      [] mutationFn \in {"pushUser", "pushProcess"} ->
           [state |-> s, threw |-> FALSE]
      [] mutationFn = "removeUser" ->
           [state |-> [s EXCEPT !.users = Len(heap) + 1], threw |-> FALSE]
      [] mutationFn \in {"pushOrder", "pushProduct", "updateUser", "updateOrder",
                         "updateProduct"} ->
           [state |-> s, threw |-> FALSE]
      [] mutationFn \in {"setUsers", "removeUserById"} ->
           [state |-> [s EXCEPT !.users = Len(heap) + 1], threw |-> FALSE]
      [] mutationFn \in {"setProcesses", "removeProcess"} ->
           [state |-> [s EXCEPT !.processes = Len(heap) + 1], threw |-> FALSE]
      [] mutationFn = "setProducts" ->
           [state |-> [s EXCEPT !.products = Len(heap) + 1], threw |-> FALSE]
      [] mutationFn \in {"setOrders", "removeOrder"} ->
           [state |-> [s EXCEPT !.orders = Len(heap) + 1], threw |-> FALSE]
      [] mutationFn = "setCurrentUser" ->
           [state |-> [currentUser |-> payload] @@ s, threw |-> FALSE]
      [] mutationFn = "clearCurrentUser" ->
           [state |-> [currentUser |-> NoObject] @@ s, threw |-> FALSE]

\* arr[index] = {...arr[index], ...updated} at the index of the element
\* with the id of updated, when there is one
Updated(arr, updated) ==
    [i \in 1..Len(arr) |->
        IF i = Min({j \in 1..Len(arr) : arr[j].id = updated.id} \cup {Len(arr) + 1})
        THEN updated @@ arr[i]
        ELSE arr[i]]

\* what a mutation function does to the arrays: push changes the array
\* the state refers to, an assignment at an index too; filter builds a
\* new array, and set takes the array it is given
MutationHeapBody(mutationFn, s, payload) ==
    CASE mutationFn = "pushUser" -> [heap EXCEPT ![s.users] = Append(@, payload)]
      [] mutationFn = "pushProcess" -> [heap EXCEPT ![s.processes] = Append(@, payload)]
      [] mutationFn = "removeUser" ->
           Append(heap, SelectSeq(heap[s.users], LAMBDA u : u # payload))
      [] mutationFn = "pushOrder" -> [heap EXCEPT ![s.orders] = Append(@, payload)]
      [] mutationFn = "pushProduct" -> [heap EXCEPT ![s.products] = Append(@, payload)]
      [] mutationFn = "updateUser" -> [heap EXCEPT ![s.users] = Updated(@, payload)]
      [] mutationFn = "updateOrder" -> [heap EXCEPT ![s.orders] = Updated(@, payload)]
      [] mutationFn = "updateProduct" -> [heap EXCEPT ![s.products] = Updated(@, payload)]
      [] mutationFn = "removeUserById" ->
           Append(heap, SelectSeq(heap[s.users], LAMBDA u : u.id # payload))
      [] mutationFn = "removeProcess" ->
           Append(heap, SelectSeq(heap[s.processes], LAMBDA q : q # payload))
      [] mutationFn = "removeOrder" ->
           Append(heap, SelectSeq(heap[s.orders], LAMBDA o : o.id # payload))
      [] mutationFn \in {"setUsers", "setProcesses", "setProducts", "setOrders"} ->
           Append(heap, payload)
      [] OTHER -> heap

\* the arrays after commit(mutationName, payload)
MutationHeap(mutationName, payload) ==
    IF mutationName \in DOMAIN mutations
    THEN MutationHeapBody(mutations[mutationName], state, payload)
    ELSE heap

\* what the body of a subscriber does when told of the mutation m
SubscriberBody(callback, m) ==
    CASE callback = "ok" -> "return"
      [] callback = "throw" -> "throw"
      [] callback = "recommit" -> IF m.payload = 1 THEN "commit" ELSE "return"

\* addToHistory(entry): push, then keep the last maxHistorySize entries
AddToHistory(entry) ==
    LET pushed == Append(history, entry)
    IN IF Len(pushed) > maxHistorySize
       THEN Slice(pushed, 0 - maxHistorySize)
       ELSE pushed

\* getHistory(): a copy of the history array
GetHistory == history

\* the history entry commit builds
Entry(mutationName, payload, prevState, newState, timestamp) ==
    [type |-> "mutation", name |-> mutationName, payload |-> payload,
     prevState |-> prevState, newState |-> newState, timestamp |-> timestamp]

\* the frame of a commit call whose mutation was applied: forEach over
\* the subscribers, then the bus event, then the finally block
CommitFrame(mutationName, payload, prevState, cid) ==
    [kind |-> "commit", name |-> mutationName, payload |-> payload,
     prevState |-> prevState, i |-> 1, pc |-> "notify", cid |-> cid]

\* ghost: the record of a commit whose mutation was applied
Applied(entry) ==
    [entry |-> entry, status |-> "running", subs |-> subscribers,
     notified |-> <<>>, told |-> <<>>, raised |-> {}]

\* faulty variant: commit of a name that is not registered returns silently
CommitUnknownSilent(base, cs) ==
    /\ ret' = "returned"
    /\ stack' = base
    /\ commits' = cs
    /\ UNCHANGED <<state, isCommitting, history>>

\* commit of a name that is not registered: the error is thrown before
\* anything else happens.  base is the stack of the caller, cs the ghost.
CommitUnknown(base, cs) ==
    /\ ret' = "threw"
    /\ stack' = base
    /\ commits' = cs
    /\ UNCHANGED <<state, isCommitting, history>>

\* faulty variant: the entry is added to the history although the mutation raised
CommitFailedRecorded(base, cs, mutationName, payload, run) ==
    /\ state' = run.state
    /\ isCommitting' = FALSE
    /\ history' = AddToHistory(Entry(mutationName, payload, state, run.state, 0))
    /\ ret' = "threw"
    /\ stack' = base
    /\ commits' = cs

\* faulty variant: the catch block puts the state back
CommitFailedRollback(base, cs, mutationName, payload, run) ==
    /\ state' = state
    /\ isCommitting' = FALSE
    /\ ret' = "threw"
    /\ stack' = base
    /\ commits' = cs
    /\ UNCHANGED history

\* the mutation function raised: the catch block logs and rethrows, the
\* finally block resets isCommitting; the state is left as the mutation
\* left it
CommitFailed(base, cs, mutationName, payload, run) ==
    /\ state' = run.state
    /\ isCommitting' = FALSE
    /\ ret' = "threw"
    /\ stack' = base
    /\ commits' = cs
    /\ UNCHANGED history

\* faulty variant: the entry is not added to the history in the turn that
\* runs the mutation
CommitAppliedDeferred(base, cs, mutationName, payload, run, timestamp) ==
    LET entry == Entry(mutationName, payload, state, run.state, timestamp)
    IN /\ state' = run.state
       /\ isCommitting' = TRUE
       /\ history' = history
       /\ ret' = "none"
       /\ stack' = Append(base, CommitFrame(mutationName, payload, state, Len(cs) + 1))
       /\ commits' = Append(cs, Applied(entry))

\* the mutation function returned: the entry is added to the history and
\* the notification of the subscribers starts
CommitApplied(base, cs, mutationName, payload, run, timestamp) ==
    LET entry == Entry(mutationName, payload, state, run.state, timestamp)
    IN /\ state' = run.state
       /\ isCommitting' = TRUE
       /\ history' = AddToHistory(entry)
       /\ ret' = "none"
       /\ stack' = Append(base, CommitFrame(mutationName, payload, state, Len(cs) + 1))
       /\ commits' = Append(cs, Applied(entry))

\* commit(mutationName, payload) up to the first subscriber
CommitCall(base, cs, mutationName, payload, timestamp) ==
    IF mutationName \notin DOMAIN mutations
    THEN CommitUnknown(base, cs)
    ELSE LET run == MutationBody(mutations[mutationName], state, payload)
         IN IF run.threw
            THEN CommitFailed(base, cs, mutationName, payload, run)
            ELSE CommitApplied(base, cs, mutationName, payload, run, timestamp)

\* ghost: what a top-level commit call found
Before(mutationName, payload) ==
    [op |-> "commit", name |-> mutationName, payload |-> payload,
     fn |-> IF mutationName \in DOMAIN mutations THEN mutations[mutationName]
            ELSE "undefined",
     state |-> state, history |-> history, commits |-> commits,
     published |-> published, rounds |-> rounds, since |-> lastCall.since,
     heap |-> heap, latest |-> LatestOf("mutation", mutationName)]

\* commit(mutationName, payload), called from the top level
Commit(mutationName, payload, timestamp) ==
    /\ Idle
    /\ budget' = [budget EXCEPT !.commit = @ + 1]
    /\ lastCall' = Before(mutationName, payload)
    /\ CommitCall(<<>>, commits, mutationName, payload, timestamp)
    /\ UNCHANGED <<busVars, mutations, subscribers, maxHistorySize, ghostBus, published>>
    /\ heap' = MutationHeap(mutationName, payload)
    /\ UNCHANGED dispatchVars
    /\ UNCHANGED moduleVars

\* notifySubscribers is at a subscriber
AtSubscriber ==
    /\ ~Idle
    /\ Top.kind = "commit"
    /\ Top.pc = "notify"
    /\ Top.i <= Len(subscribers)

\* the mutation descriptor passed to the subscribers
Descriptor(f) == [type |-> "mutation", name |-> f.name, payload |-> f.payload]

\* the commit frame on top after its current subscriber was dealt with
NextSubscriber == [Top EXCEPT !.i = @ + 1, !.pc = "notify"]

\* ghost: the subscriber at position i of the commit of frame f was called,
\* with the arguments (prevState, this.state, descriptor)
Notified(cs, f) ==
    [cs EXCEPT ![f.cid].notified = Append(@, subscribers[f.i]),
               ![f.cid].told = Append(@, [prevState |-> f.prevState, newState |-> state,
                                          mutation |-> Descriptor(f)])]
Failed(cs, f) == [cs EXCEPT ![f.cid].raised = @ \cup {subscribers[f.i]}]

\* the subscriber is called and returns
SubscriberReturns ==
    /\ AtSubscriber
    /\ SubscriberBody(subscribers[Top.i], Descriptor(Top)) = "return"
    /\ commits' = Notified(commits, Top)
    /\ stack' = Append(Below, NextSubscriber)
    /\ UNCHANGED <<busVars, storeVars, ret, budget, ghostBus, published, lastCall>>
    /\ UNCHANGED <<dispatchVars, heap>>
    /\ UNCHANGED moduleVars

\* faulty variant: no catch block around the subscriber: its error reaches the
\* catch and finally blocks of commit
SubscriberThrowsUncaught ==
    /\ AtSubscriber
    /\ SubscriberBody(subscribers[Top.i], Descriptor(Top)) = "throw"
    /\ commits' = [Failed(Notified(commits, Top), Top) EXCEPT ![Top.cid].status = "threw"]
    /\ isCommitting' = FALSE
    /\ stack' = Below
    /\ ret' = "threw"
    /\ UNCHANGED <<busVars, state, mutations, subscribers, history, maxHistorySize,
                   budget, ghostBus, published, lastCall>>
    /\ UNCHANGED <<dispatchVars, heap>>
    /\ UNCHANGED moduleVars

\* the subscriber is called and raises: the catch block logs the error
\* and forEach goes on
SubscriberThrows ==
    /\ AtSubscriber
    /\ SubscriberBody(subscribers[Top.i], Descriptor(Top)) = "throw"
    /\ commits' = Failed(Notified(commits, Top), Top)
    /\ stack' = Append(Below, NextSubscriber)
    /\ UNCHANGED <<busVars, storeVars, ret, budget, ghostBus, published, lastCall>>
    /\ UNCHANGED <<dispatchVars, heap>>
    /\ UNCHANGED moduleVars

\* the subscriber is called and commits SET_COUNT itself
SubscriberCommits ==
    /\ AtSubscriber
    /\ SubscriberBody(subscribers[Top.i], Descriptor(Top)) = "commit"
    /\ \E timestamp \in Timestamps :
          CommitCall(Append(Below, [Top EXCEPT !.pc = "insub"]),
                     Notified(commits, Top), "SET_COUNT", 2, timestamp)
    /\ UNCHANGED <<busVars, mutations, subscribers, maxHistorySize, budget, ghostBus,
                   published, lastCall>>
    /\ heap' = MutationHeap("SET_COUNT", 2)
    /\ UNCHANGED dispatchVars
    /\ UNCHANGED moduleVars

\* the commit made by the subscriber is over: the subscriber returns, or
\* raises when that commit raised, into the catch block
SubscriberResumes ==
    /\ ~Idle
    /\ Top.kind = "commit"
    /\ Top.pc = "insub"
    /\ commits' = IF ret = "threw" THEN Failed(commits, Top) ELSE commits
    /\ stack' = Append(Below, NextSubscriber)
    /\ UNCHANGED <<busVars, storeVars, ret, budget, ghostBus, published, lastCall>>
    /\ UNCHANGED <<dispatchVars, heap>>
    /\ UNCHANGED moduleVars

\* the payload of the store:mutation event; newState is the live state
MutationEvent(f) ==
    [name |-> f.name, payload |-> f.payload, prevState |-> f.prevState,
     newState |-> "this.state"]

\* faulty variant: the store:mutation event is published before the
\* subscribers are told
CommitEmitsFirst ==
    /\ ~Idle
    /\ Top.kind = "commit"
    /\ Top.pc = "notify"
    /\ published' = Append(published, Top.cid)
    /\ IF MutationTopic \notin DOMAIN events
       THEN /\ stack' = Append(Below, [Top EXCEPT !.pc = "emit"])
            /\ ret' = "returned"
            /\ UNCHANGED rounds
       ELSE /\ stack' = Append(Append(Below, [Top EXCEPT !.pc = "emit"]),
                               EmitFrame(MutationTopic, MutationEvent(Top)))
            /\ rounds' = Append(rounds, Round(MutationTopic, MutationEvent(Top)))
            /\ ret' = "none"
    /\ UNCHANGED <<busVars, storeVars, budget, lifetime, commits, lastCall>>
    /\ UNCHANGED <<dispatchVars, heap>>
    /\ UNCHANGED moduleVars

\* all subscribers were told: eventBus.emit('store:mutation', ...)
CommitEmits ==
    /\ ~Idle
    /\ Top.kind = "commit"
    /\ Top.pc = "notify"
    /\ Top.i > Len(subscribers)
    /\ published' = Append(published, Top.cid)
    /\ IF MutationTopic \notin DOMAIN events
       THEN /\ stack' = Append(Below, [Top EXCEPT !.pc = "emit"])
            /\ ret' = "returned"
            /\ UNCHANGED rounds
       ELSE /\ stack' = Append(Append(Below, [Top EXCEPT !.pc = "emit"]),
                               EmitFrame(MutationTopic, MutationEvent(Top)))
            /\ rounds' = Append(rounds, Round(MutationTopic, MutationEvent(Top)))
            /\ ret' = "none"
    /\ UNCHANGED <<busVars, storeVars, budget, lifetime, commits, lastCall>>
    /\ UNCHANGED <<dispatchVars, heap>>
    /\ UNCHANGED moduleVars

\* faulty variant: commit returns without a finally block
CommitReturnsFlagKept ==
    /\ ~Idle
    /\ Top.kind = "commit"
    /\ Top.pc = "emit"
    /\ stack' = Below
    /\ ret' = "returned"
    /\ commits' = [commits EXCEPT ![Top.cid].status = "returned"]
    /\ UNCHANGED <<busVars, storeVars, budget, ghostBus, published, lastCall>>
    /\ UNCHANGED <<dispatchVars, heap>>
    /\ UNCHANGED moduleVars

\* the bus event was published: the finally block, and commit returns
CommitReturns ==
    /\ ~Idle
    /\ Top.kind = "commit"
    /\ Top.pc = "emit"
    /\ isCommitting' = FALSE
    /\ stack' = Below
    /\ ret' = "returned"
    /\ commits' = [commits EXCEPT ![Top.cid].status = "returned"]
    /\ UNCHANGED <<busVars, state, mutations, subscribers, history, maxHistorySize,
                   budget, ghostBus, published, lastCall>>
    /\ UNCHANGED <<dispatchVars, heap>>
    /\ UNCHANGED moduleVars

\* clearHistory()
ClearHistory ==
    /\ Idle
    /\ history' = <<>>
    /\ lastCall' = [op |-> "clearHistory", since |-> Len(commits)]
    /\ UNCHANGED <<busVars, state, mutations, subscribers, isCommitting, maxHistorySize,
                   stack, ret, budget, ghostBus, ghostStore>>
    /\ UNCHANGED <<dispatchVars, heap>>
    /\ UNCHANGED moduleVars

\* setMaxHistorySize(size)
SetMaxHistorySize(size) ==
    /\ Idle
    /\ maxHistorySize' = size
    /\ history' = IF Len(history) > size THEN Slice(history, 0 - size) ELSE history
    /\ lastCall' = [op |-> "setMaxHistorySize", since |-> Len(commits)]
    /\ UNCHANGED <<busVars, state, mutations, subscribers, isCommitting,
                   stack, ret, budget, ghostBus, ghostStore>>
    /\ UNCHANGED <<dispatchVars, heap>>
    /\ UNCHANGED moduleVars

\* registerAction(name, actionFn): warns on a known name, then sets
RegisterAction(name, actionFn) ==
    /\ Idle
    /\ actions' = IF name \in DOMAIN actions
                  THEN [actions EXCEPT ![name] = actionFn]
                  ELSE actions @@ (name :> actionFn)
    /\ latest' = Latest("action", name, actionFn)
    /\ UNCHANGED <<busVars, storeVars, stack, ret, budget, ghostBus, ghostStore,
                   lastCall, getters, heap, tasks, actionEvents, reads>>
    /\ UNCHANGED moduleVars

\* registerGetter(name, getterFn): warns on a known name, then sets
RegisterGetter(name, getterFn) ==
    /\ Idle
    /\ getters' = IF name \in DOMAIN getters
                  THEN [getters EXCEPT ![name] = getterFn]
                  ELSE getters @@ (name :> getterFn)
    /\ latest' = Latest("getter", name, getterFn)
    /\ UNCHANGED <<busVars, storeVars, stack, ret, budget, ghostBus, ghostStore,
                   lastCall, actions, heap, tasks, actionEvents, reads>>
    /\ UNCHANGED moduleVars

\* what a getter function gives for the state s; view is the getters
\* object it is passed, whose properties run the getter functions of the
\* registry as it was when the object was built.  A property that is not
\* there is undefined, and undefined * 2 is NaN.
GetterBody(getterFn, s, view) ==
    CASE getterFn = "count" -> s.count
      [] getterFn = "negCount" -> 0 - s.count
      [] getterFn = "users" -> heap[s.users]
      [] getterFn = "products" -> heap[s.products]
      [] getterFn = "orders" -> heap[s.orders]
      [] getterFn = "sortedProcesses" -> Sort(heap[s.processes])
      [] getterFn = "currentUser" -> s.currentUser
      [] getterFn = "isAdmin" ->
           s.currentUser # NoObject /\ s.currentUser.role = USER_ROLES.ADMIN
      [] getterFn = "double" ->
           IF "count" \notin DOMAIN view THEN None
           ELSE IF view["count"] = "count" THEN s.count * 2
           ELSE IF view["count"] = "negCount" THEN (0 - s.count) * 2
           ELSE None

\* what a getter function does to the arrays: sort sorts the array of
\* the state in place
GetterHeap(getterFn, s) ==
    IF getterFn = "sortedProcesses"
    THEN [heap EXCEPT ![s.processes] = Sort(@)]
    ELSE heap

\* getAllGetters(): one property per registered getter
GetAllGetters == getters

\* ghost: a read of the getter, what it gave and the state it was made in
Read(via, getterName, view, value, threw) ==
    [via |-> via, name |-> getterName, names |-> DOMAIN view, value |-> value,
     threw |-> threw, state |-> state, latest |-> LatestOf("getter", getterName)]

\* getGetter(getterName), called from the top level
GetGetter(getterName) ==
    /\ Idle
    /\ budget' = [budget EXCEPT !.read = @ + 1]
    /\ reads' = Append(reads,
                       IF getterName \notin DOMAIN getters
                       THEN Read("getGetter", getterName, GetAllGetters, None, TRUE)
                       ELSE Read("getGetter", getterName, GetAllGetters,
                                 GetterBody(getters[getterName], state, GetAllGetters),
                                 FALSE))
    /\ heap' = IF getterName \in DOMAIN getters
               THEN GetterHeap(getters[getterName], state)
               ELSE heap
    /\ UNCHANGED <<busVars, storeVars, stack, ret, ghostBus, ghostStore, lastCall,
                   actions, getters, tasks, actionEvents, latest>>
    /\ UNCHANGED moduleVars

\* faulty variant: context.getters holds the values the getters had when
\* dispatch built the context
ContextReadCached(t, getterName) ==
    IF getterName \in DOMAIN t.getters
    THEN GetterBody(t.getters[getterName], t.before.state, t.getters)
    ELSE None

\* context.getters[getterName], read by the action of the task t
ContextRead(t, getterName) ==
    IF getterName \in DOMAIN t.getters
    THEN GetterBody(t.getters[getterName], state, t.getters)
    ELSE None

\* faulty variant: readAwaitWrite reads the count again after its await
ProgramRereads(actionFn) ==
    CASE actionFn = "incrementTwice" ->
           <<[op |-> "commit", name |-> "SET_COUNT", arg |-> "state.count+1"],
             [op |-> "commit", name |-> "SET_COUNT", arg |-> "state.count+1"],
             [op |-> "return", arg |-> "undefined"]>>
      [] actionFn = "readAwaitWrite" ->
           <<[op |-> "await", let |-> "state.count"],
             [op |-> "commit", name |-> "SET_COUNT", arg |-> "state.count+1"],
             [op |-> "return", arg |-> "v+1"]>>
      [] actionFn = "commitThenThrow" ->
           <<[op |-> "commit", name |-> "SET_COUNT", arg |-> "payload"],
             [op |-> "throw"]>>
      [] actionFn = "readDouble" ->
           <<[op |-> "await", let |-> "undefined"],
             [op |-> "get", name |-> "double"],
             [op |-> "return", arg |-> "v"]>>

\* the body of an action function, as the statements it runs in order; the
\* actions of AuthModule and UserModule call a method of the module, and
\* the body is the body of the method: login (emit, await authenticateUser,
\* setCurrentUser, emit, finally emit), logout, registerUser and createUser,
\* each with the statements of its catch block last
Program(actionFn) ==
    CASE actionFn = "incrementTwice" ->
           <<[op |-> "commit", name |-> "SET_COUNT", arg |-> "state.count+1"],
             [op |-> "commit", name |-> "SET_COUNT", arg |-> "state.count+1"],
             [op |-> "return", arg |-> "undefined"]>>
      [] actionFn = "readAwaitWrite" ->
           <<[op |-> "await", let |-> "state.count"],
             [op |-> "commit", name |-> "SET_COUNT", arg |-> "v+1"],
             [op |-> "return", arg |-> "v+1"]>>
      [] actionFn = "commitThenThrow" ->
           <<[op |-> "commit", name |-> "SET_COUNT", arg |-> "payload"],
             [op |-> "throw"]>>
      [] actionFn = "readDouble" ->
           <<[op |-> "await", let |-> "undefined"],
             [op |-> "get", name |-> "double"],
             [op |-> "return", arg |-> "v"]>>
      [] actionFn = "login" ->
           <<[op |-> "emit", event |-> EVENTS.LOADING_START, arg |-> "source.auth"],
             [op |-> "await", let |-> "undefined"],
             [op |-> "let", arg |-> "authenticateUser"],
             [op |-> "if", cond |-> "user", else |-> 11],
             [op |-> "this.currentUser", arg |-> "user"],
             [op |-> "commit", name |-> "SET_CURRENT_USER", arg |-> "user"],
             [op |-> "userStorage", method |-> "setCurrentUser"],
             [op |-> "emit", event |-> EVENTS.USER_LOGIN, arg |-> "user"],
             [op |-> "emit", event |-> EVENTS.LOADING_END, arg |-> "source.auth"],
             [op |-> "return", arg |-> "success.user"],
             [op |-> "emit", event |-> EVENTS.LOADING_END, arg |-> "source.auth"],
             [op |-> "return", arg |-> "badCredentials"],
             [op |-> "emit", event |-> EVENTS.LOADING_END, arg |-> "source.auth"],
             [op |-> "return", arg |-> "loginFailed"]>>
      [] actionFn = "logout" ->
           <<[op |-> "let", arg |-> "this.currentUser"],
             [op |-> "this.currentUser", arg |-> "null"],
             [op |-> "commit", name |-> "CLEAR_CURRENT_USER", arg |-> "undefined"],
             [op |-> "userStorage", method |-> "clearUserData"],
             [op |-> "emit", event |-> EVENTS.USER_LOGOUT, arg |-> "user"],
             [op |-> "return", arg |-> "success"],
             [op |-> "return", arg |-> "logoutFailed"]>>
      [] actionFn = "loadData" ->
           <<[op |-> "emit", event |-> EVENTS.LOADING_START, arg |-> "source.data"],
             [op |-> "appStorage", method |-> "getAppData"],
             [op |-> "if", cond |-> "data.users.length", else |-> 5],
             [op |-> "commit", name |-> "SET_USERS", arg |-> "data.users"],
             [op |-> "commit", name |-> "SET_PROCESSES", arg |-> "data.processes"],
             [op |-> "commit", name |-> "SET_PRODUCTS", arg |-> "data.products"],
             [op |-> "commit", name |-> "SET_ORDERS", arg |-> "data.orders"],
             [op |-> "emit", event |-> EVENTS.LOADING_END, arg |-> "source.data"],
             [op |-> "return", arg |-> "data"],
             [op |-> "emit", event |-> EVENTS.ERROR, arg |-> "undefined"],
             [op |-> "emit", event |-> EVENTS.LOADING_END, arg |-> "source.data"],
             [op |-> "throw"]>>
      [] actionFn = "registerUser" ->
           <<[op |-> "if", cond |-> "hasRole.admin", else |-> 8],
             [op |-> "if", cond |-> "valid", else |-> 9],
             [op |-> "if", cond |-> "unique", else |-> 10],
             [op |-> "let", arg |-> "registeredUser"],
             [op |-> "dispatch", name |-> "addUser", arg |-> "newUser"],
             [op |-> "emit", event |-> EVENTS.USER_CREATED, arg |-> "newUser"],
             [op |-> "return", arg |-> "success.user"],
             [op |-> "return", arg |-> "denied"],
             [op |-> "return", arg |-> "invalid"],
             [op |-> "return", arg |-> "exists"],
             [op |-> "return", arg |-> "registerFailed"]>>
      [] actionFn = "createUser" ->
           <<[op |-> "if", cond |-> "valid", else |-> 9],
             [op |-> "let", arg |-> "getGetter.currentUser"],
             [op |-> "if", cond |-> "currentUser.isAdmin", else |-> 10],
             [op |-> "if", cond |-> "unique", else |-> 11],
             [op |-> "let", arg |-> "createdUser"],
             [op |-> "commit", name |-> "ADD_USER", arg |-> "newUser"],
             [op |-> "emit", event |-> EVENTS.USER_CREATED, arg |-> "newUser"],
             [op |-> "return", arg |-> "success.user"],
             [op |-> "return", arg |-> "invalid"],
             [op |-> "return", arg |-> "denied"],
             [op |-> "return", arg |-> "exists"],
             [op |-> "return", arg |-> "createFailed"]>>
      [] actionFn = "updateUser" ->
           <<[op |-> "let", arg |-> "getUserById"],
             [op |-> "if", cond |-> "user.found", else |-> 11],
             [op |-> "let", arg |-> "currentUser"],
             [op |-> "if", cond |-> "canEdit", else |-> 12],
             [op |-> "let", arg |-> "updatedUser"],
             [op |-> "commit", name |-> "UPDATE_USER", arg |-> "updatedUser"],
             [op |-> "if", cond |-> "own", else |-> 9],
             [op |-> "commit", name |-> "SET_CURRENT_USER", arg |-> "updatedUser"],
             [op |-> "emit", event |-> EVENTS.USER_UPDATED, arg |-> "updatedUser"],
             [op |-> "return", arg |-> "success.updatedUser"],
             [op |-> "return", arg |-> "notFound"],
             [op |-> "return", arg |-> "denied"],
             [op |-> "return", arg |-> "updateFailed"]>>
      [] actionFn = "handleRoute" ->
           <<[op |-> "let", arg |-> "routeMatch"],
             [op |-> "if", cond |-> "route.found", else |-> 13],
             [op |-> "beforeEach"],
             [op |-> "await", let |-> "local"],
             [op |-> "if", cond |-> "result", else |-> 12],
             [op |-> "this.currentRoute"],
             [op |-> "handler"],
             [op |-> "await", let |-> "local"],
             [op |-> "afterEach"],
             [op |-> "await", let |-> "local"],
             [op |-> "emit", event |-> "router:change", arg |-> "routeChange"],
             [op |-> "return", arg |-> "undefined"],
             [op |-> "emit", event |-> "router:notFound", arg |-> "notFoundPath"],
             [op |-> "return", arg |-> "undefined"],
             [op |-> "emit", event |-> "router:error", arg |-> "routeError"],
             [op |-> "return", arg |-> "undefined"]>>
      [] actionFn = "createOrder" ->
           <<[op |-> "if", cond |-> "validOrder", else |-> 8],
             [op |-> "let", arg |-> "orderNumber"],
             [op |-> "let", arg |-> "currentUser"],
             [op |-> "let", arg |-> "newOrder"],
             [op |-> "commit", name |-> "ADD_ORDER", arg |-> "order"],
             [op |-> "emit", event |-> EVENTS.ORDER_CREATED, arg |-> "order"],
             [op |-> "return", arg |-> "success.order"],
             [op |-> "return", arg |-> "invalid"],
             [op |-> "return", arg |-> "orderFailed"]>>
      [] actionFn = "updateOrder" ->
           <<[op |-> "let", arg |-> "getOrderById"],
             [op |-> "if", cond |-> "order.found", else |-> 8],
             [op |-> "let", arg |-> "currentUser"],
             [op |-> "let", arg |-> "updatedOrder"],
             [op |-> "commit", name |-> "UPDATE_ORDER", arg |-> "updated"],
             [op |-> "emit", event |-> EVENTS.ORDER_UPDATED, arg |-> "updated"],
             [op |-> "return", arg |-> "success.updated"],
             [op |-> "return", arg |-> "notFound"],
             [op |-> "return", arg |-> "orderFailed"]>>
      [] actionFn = "deleteOrder" ->
           <<[op |-> "let", arg |-> "getOrderById"],
             [op |-> "if", cond |-> "order.found", else |-> 8],
             [op |-> "let", arg |-> "currentUser"],
             [op |-> "if", cond |-> "canDelete", else |-> 9],
             [op |-> "commit", name |-> "REMOVE_ORDER", arg |-> "payload"],
             [op |-> "emit", event |-> EVENTS.ORDER_DELETED, arg |-> "deleted"],
             [op |-> "return", arg |-> "success"],
             [op |-> "return", arg |-> "notFound"],
             [op |-> "return", arg |-> "denied"],
             [op |-> "return", arg |-> "orderFailed"]>>
      [] actionFn = "moveOrder" ->
           <<[op |-> "let", arg |-> "getOrderById"],
             [op |-> "if", cond |-> "order.found", else |-> 9],
             [op |-> "let", arg |-> "currentUser"],
             [op |-> "if", cond |-> "canUserMoveOrder", else |-> 10],
             [op |-> "let", arg |-> "updatedOrder"],
             [op |-> "commit", name |-> "UPDATE_ORDER", arg |-> "updated"],
             [op |-> "emit", event |-> EVENTS.ORDER_MOVED, arg |-> "moved"],
             [op |-> "return", arg |-> "success.updated"],
             [op |-> "return", arg |-> "notFound"],
             [op |-> "return", arg |-> "denied"],
             [op |-> "return", arg |-> "orderFailed"]>>
      [] actionFn = "sendOrderToDefect" ->
           <<[op |-> "let", arg |-> "getOrderById"],
             [op |-> "if", cond |-> "order.found", else |-> 8],
             [op |-> "let", arg |-> "currentUser"],
             [op |-> "let", arg |-> "updatedOrder"],
             [op |-> "commit", name |-> "UPDATE_ORDER", arg |-> "updated"],
             [op |-> "emit", event |-> EVENTS.ORDER_STATUS_CHANGED, arg |-> "changed"],
             [op |-> "return", arg |-> "success.updated"],
             [op |-> "return", arg |-> "notFound"],
             [op |-> "return", arg |-> "orderFailed"]>>
      [] actionFn = "fixDefectOrder" ->
           <<[op |-> "let", arg |-> "getOrderById"],
             [op |-> "if", cond |-> "order.defective", else |-> 8],
             [op |-> "let", arg |-> "currentUser"],
             [op |-> "let", arg |-> "updatedOrder"],
             [op |-> "commit", name |-> "UPDATE_ORDER", arg |-> "updated"],
             [op |-> "emit", event |-> EVENTS.ORDER_STATUS_CHANGED, arg |-> "changed"],
             [op |-> "return", arg |-> "success.updated"],
             [op |-> "return", arg |-> "notFound"],
             [op |-> "return", arg |-> "orderFailed"]>>
      [] actionFn = "deleteProcess" ->
           <<[op |-> "let", arg |-> "getProcessById"],
             [op |-> "if", cond |-> "process.found", else |-> 21],
             [op |-> "let", arg |-> "currentUser"],
             [op |-> "if", cond |-> "isAdmin", else |-> 22],
             [op |-> "if", cond |-> "processEmpty", else |-> 23],
             [op |-> "let", arg |-> "first"],
             [op |-> "if", cond |-> "products.more", else |-> 12],
             [op |-> "if", cond |-> "product.includes", else |-> 10],
             [op |-> "commit", name |-> "UPDATE_PRODUCT", arg |-> "product.without"],
             [op |-> "let", arg |-> "next"],
             [op |-> "if", cond |-> "false", else |-> 7],
             [op |-> "let", arg |-> "first"],
             [op |-> "if", cond |-> "users.more", else |-> 18],
             [op |-> "if", cond |-> "user.includes", else |-> 16],
             [op |-> "commit", name |-> "UPDATE_USER", arg |-> "user.without"],
             [op |-> "let", arg |-> "next"],
             [op |-> "if", cond |-> "false", else |-> 13],
             [op |-> "commit", name |-> "REMOVE_PROCESS", arg |-> "payload"],
             [op |-> "emit", event |-> EVENTS.PROCESS_DELETED, arg |-> "deleted"],
             [op |-> "return", arg |-> "success"],
             [op |-> "return", arg |-> "notFound"],
             [op |-> "return", arg |-> "denied"],
             [op |-> "return", arg |-> "refused"],
             [op |-> "return", arg |-> "processFailed"]>>

\* faulty variant: context.state is a copy of the state made by dispatch
ValueStale(arg, t) ==
    CASE arg = "state.count+1" -> t.before.state.count + 1
      [] arg = "state.count" -> t.before.state.count
      [] arg = "v+1" -> t.local + 1
      [] arg = "v" -> t.local
      [] arg = "payload" -> t.payload
      [] arg = "undefined" -> None

\* the routeContext handleRoute builds for the route it found (the query is
\* left out)
RouteContext(local) ==
    [path |-> local.path, params |-> local.match.params, name |-> local.match.name]

\* the value of an expression of an action body in the task t, now
Value(arg, t) ==
    CASE arg = "state.count+1" -> state.count + 1
      [] arg = "state.count" -> state.count
      [] arg = "v+1" -> t.local + 1
      [] arg = "v" -> t.local
      [] arg = "payload" -> t.payload
      [] arg = "undefined" -> None
      [] arg \in {"user", "newUser"} -> t.local
      [] arg = "source.auth" -> [source |-> "auth"]
      [] arg = "source.data" -> [source |-> "data"]
      [] arg = "updatedUser" -> t.local.updatedUser
      [] arg = "order" -> t.local.order
      [] arg = "local" -> t.local
      [] arg = "routeChange" -> [from |-> t.local.from, to |-> RouteContext(t.local)]
      [] arg = "notFoundPath" -> [path |-> t.local.path]
      [] arg = "routeError" -> [route |-> RouteContext(t.local)]
      [] arg = "success.order" -> [success |-> TRUE, order |-> t.local.order]
      [] arg = "updated" -> t.local.updated
      [] arg = "success.updated" -> [success |-> TRUE, order |-> t.local.updated]
      [] arg = "deleted" -> [id |-> t.payload]
      [] arg = "moved" ->
           [order |-> t.local.updated, fromProcessId |-> t.local.order.currentProcessId,
            toProcessId |-> t.payload.toProcessId]
      [] arg = "changed" ->
           [order |-> t.local.updated, oldStatus |-> t.local.order.status,
            newStatus |-> t.local.updated.status]
      [] arg = "product.without" ->
           [id |-> heap[state.products][t.local.i].id,
            processes |-> SelectSeq(heap[state.products][t.local.i].processes,
                                    LAMBDA id : id # t.payload)]
      [] arg = "user.without" ->
           [id |-> heap[state.users][t.local.i].id,
            processes |-> SelectSeq(heap[state.users][t.local.i].processes,
                                    LAMBDA id : id # t.payload)]
      [] arg = "success.updatedUser" -> [success |-> TRUE, user |-> t.local.updatedUser]
      [] arg = "data" -> t.local
      [] arg = "data.users" -> t.local.users
      [] arg = "data.processes" -> t.local.processes
      [] arg = "data.products" -> t.local.products
      [] arg = "data.orders" -> t.local.orders
      [] arg = "success" -> [success |-> TRUE]
      [] arg = "success.user" -> [success |-> TRUE, user |-> t.local]
      [] arg \in Failures -> [success |-> FALSE, error |-> arg]

\* a dispatch call: the action function and the context it is given, the
\* statement it is at, the local it read, the commits it made
Task(actionName, payload) ==
    [name |-> actionName, payload |-> payload,
     fn |-> IF actionName \in DOMAIN actions THEN actions[actionName] ELSE "undefined",
     getters |-> getters, pc |-> 1, local |-> None, result |-> None,
     status |-> IF actionName \in DOMAIN actions THEN "running" ELSE "rejected",
     cids |-> <<>>,
     before |-> [state |-> state, history |-> history, commits |-> Len(commits),
                 events |-> Len(actionEvents),
                 latest |-> LatestOf("action", actionName)]]

\* the frame of an action function that is running
ActionFrame(t) == [kind |-> "action", task |-> t, pc |-> "run", cid |-> 0]

\* faulty variant: dispatch of a name that is not registered resolves, and
\* publishes the store:action event
DispatchUnknownPublishes(actionName, payload) ==
    /\ tasks' = Append(tasks, [Task(actionName, payload) EXCEPT !.status = "fulfilled"])
    /\ actionEvents' = Append(actionEvents,
                              [task |-> Len(tasks) + 1, name |-> actionName,
                               payload |-> payload, result |-> None,
                               commits |-> Len(commits)])
    /\ UNCHANGED stack

\* dispatch of a name that is not registered: the error is thrown before
\* anything else happens, and the promise of dispatch is rejected
DispatchUnknown(actionName, payload) ==
    /\ tasks' = Append(tasks, Task(actionName, payload))
    /\ UNCHANGED <<stack, actionEvents>>

\* dispatch(actionName, payload), called from the top level: the context
\* is built and the action function is called
Dispatch(actionName, payload) ==
    /\ Idle
    /\ budget' = [budget EXCEPT !.dispatch = @ + 1]
    /\ IF actionName \notin DOMAIN actions
       THEN DispatchUnknown(actionName, payload)
       ELSE /\ tasks' = Append(tasks, Task(actionName, payload))
            /\ stack' = <<ActionFrame(Len(tasks) + 1)>>
            /\ UNCHANGED actionEvents
    /\ UNCHANGED <<busVars, storeVars, ret, ghostBus, ghostStore, lastCall,
                   actions, getters, heap, reads, latest>>
    /\ UNCHANGED moduleVars

\* an action function is running and is at a statement
AtAction ==
    /\ ~Idle
    /\ Top.kind = "action"
    /\ Top.pc = "run"

\* the task of the frame on top, and the statement it is at
ThisTask == tasks[Top.task]
Statement == Program(ThisTask.fn)[ThisTask.pc]

\* the action calls context.commit
ActionCommits ==
    /\ AtAction
    /\ Statement.op = "commit"
    /\ \E timestamp \in Timestamps :
          CommitCall(Append(Below, [Top EXCEPT !.pc = "incommit",
                                               !.cid = Len(commits) + 1]),
                     commits, Statement.name, Value(Statement.arg, ThisTask), timestamp)
    /\ heap' = MutationHeap(Statement.name, Value(Statement.arg, ThisTask))
    /\ UNCHANGED <<busVars, mutations, subscribers, maxHistorySize, budget, ghostBus,
                   published, lastCall, dispatchVars>>
    /\ UNCHANGED moduleVars

\* faulty variant: the commit made by the action raised, and the action goes on
ActionResumesSwallowing ==
    /\ ~Idle
    /\ Top.kind = "action"
    /\ Top.pc = "incommit"
    /\ tasks' = [tasks EXCEPT ![Top.task].pc = @ + 1]
    /\ stack' = Append(Below, [Top EXCEPT !.pc = "run"])
    /\ UNCHANGED <<busVars, storeVars, ret, budget, ghostBus, ghostStore, lastCall,
                   actions, getters, heap, actionEvents, reads, latest>>
    /\ UNCHANGED moduleVars

\* the commit made by the action is over: the action goes on to its next
\* statement, or raises when the commit raised
ActionResumes ==
    /\ ~Idle
    /\ Top.kind = "action"
    /\ Top.pc = "incommit"
    /\ IF ret = "threw"
       THEN /\ tasks' = [tasks EXCEPT ![Top.task].status = "threw"]
            /\ stack' = Below
       ELSE /\ tasks' = [tasks EXCEPT ![Top.task].pc = @ + 1,
                                      ![Top.task].cids = Append(@, Top.cid)]
            /\ stack' = Append(Below, [Top EXCEPT !.pc = "run"])
    /\ UNCHANGED <<busVars, storeVars, ret, budget, ghostBus, ghostStore, lastCall,
                   actions, getters, heap, actionEvents, reads, latest>>
    /\ UNCHANGED moduleVars

\* the action reads a local and awaits: it is suspended and the call
\* stack unwinds
ActionSuspends ==
    /\ AtAction
    /\ Statement.op = "await"
    /\ tasks' = [tasks EXCEPT ![Top.task].local = Value(Statement.let, ThisTask),
                              ![Top.task].pc = @ + 1,
                              ![Top.task].status = "suspended"]
    /\ stack' = Below
    /\ UNCHANGED <<busVars, storeVars, ret, budget, ghostBus, ghostStore, lastCall,
                   actions, getters, heap, actionEvents, reads, latest>>
    /\ UNCHANGED moduleVars

\* the action reads a getter through context.getters
ActionReads ==
    /\ AtAction
    /\ Statement.op = "get"
    /\ tasks' = [tasks EXCEPT ![Top.task].local = ContextRead(ThisTask, Statement.name),
                              ![Top.task].pc = @ + 1]
    /\ reads' = Append(reads, Read("context", Statement.name, ThisTask.getters,
                                   ContextRead(ThisTask, Statement.name), FALSE))
    /\ UNCHANGED <<busVars, storeVars, stack, ret, budget, ghostBus, ghostStore,
                   lastCall, actions, getters, heap, actionEvents, latest>>
    /\ UNCHANGED moduleVars

\* what the action awaited is there: the action t goes on, on an empty
\* call stack
ActionContinues(t) ==
    /\ Idle
    /\ tasks[t].status = "suspended"
    /\ tasks' = [tasks EXCEPT ![t].status = "running"]
    /\ stack' = <<ActionFrame(t)>>
    /\ UNCHANGED <<busVars, storeVars, ret, budget, ghostBus, ghostStore, lastCall,
                   actions, getters, heap, actionEvents, reads, latest>>
    /\ UNCHANGED moduleVars

\* the action returns: its promise is fulfilled
ActionReturns ==
    /\ AtAction
    /\ Statement.op = "return"
    /\ tasks' = [tasks EXCEPT ![Top.task].status = "returned",
                              ![Top.task].result = Value(Statement.arg, ThisTask)]
    /\ stack' = Below
    /\ UNCHANGED <<busVars, storeVars, ret, budget, ghostBus, ghostStore, lastCall,
                   actions, getters, heap, actionEvents, reads, latest>>
    /\ UNCHANGED moduleVars

\* the action raises: its promise is rejected
ActionThrows ==
    /\ AtAction
    /\ Statement.op = "throw"
    /\ tasks' = [tasks EXCEPT ![Top.task].status = "threw"]
    /\ stack' = Below
    /\ UNCHANGED <<busVars, storeVars, ret, budget, ghostBus, ghostStore, lastCall,
                   actions, getters, heap, actionEvents, reads, latest>>
    /\ UNCHANGED moduleVars

\* the payload of the store:action event of the task t
ActionEvent(t) ==
    [task |-> t, name |-> tasks[t].name, payload |-> tasks[t].payload,
     result |-> tasks[t].result, commits |-> Len(commits)]

\* faulty variant: dispatch returns the result without publishing the event
DispatchPublishesNothing(t) ==
    /\ Idle
    /\ tasks[t].status = "returned"
    /\ tasks' = [tasks EXCEPT ![t].status = "fulfilled"]
    /\ UNCHANGED <<busVars, storeVars, stack, ret, budget, ghostBus, ghostStore,
                   lastCall, actions, getters, heap, actionEvents, reads, latest>>
    /\ UNCHANGED moduleVars

\* dispatch goes on after the await of a fulfilled action:
\* eventBus.emit('store:action', ...), then return result
DispatchPublishes(t) ==
    /\ Idle
    /\ tasks[t].status = "returned"
    /\ actionEvents' = Append(actionEvents, ActionEvent(t))
    /\ IF ActionTopic \notin DOMAIN events
       THEN /\ tasks' = [tasks EXCEPT ![t].status = "fulfilled"]
            /\ UNCHANGED <<stack, rounds, ret>>
       ELSE /\ tasks' = [tasks EXCEPT ![t].status = "publishing"]
            /\ stack' = <<[kind |-> "dispatch", task |-> t],
                          EmitFrame(ActionTopic, ActionEvent(t))>>
            /\ rounds' = Append(rounds, Round(ActionTopic, ActionEvent(t)))
            /\ ret' = "none"
    /\ UNCHANGED <<busVars, storeVars, budget, lifetime, ghostStore, lastCall,
                   actions, getters, heap, reads, latest>>
    /\ UNCHANGED moduleVars

\* the store:action event was published: dispatch returns the result
DispatchReturns ==
    /\ ~Idle
    /\ Top.kind = "dispatch"
    /\ tasks' = [tasks EXCEPT ![Top.task].status = "fulfilled"]
    /\ stack' = Below
    /\ UNCHANGED <<busVars, storeVars, ret, budget, ghostBus, ghostStore, lastCall,
                   actions, getters, heap, actionEvents, reads, latest>>
    /\ UNCHANGED moduleVars

\* faulty variant: the catch block of dispatch swallows the error of the action
DispatchRejectsSilently(t) ==
    /\ Idle
    /\ tasks[t].status = "threw"
    /\ tasks' = [tasks EXCEPT ![t].status = "fulfilled"]
    /\ UNCHANGED <<busVars, storeVars, stack, ret, budget, ghostBus, ghostStore,
                   lastCall, actions, getters, heap, actionEvents, reads, latest>>
    /\ UNCHANGED moduleVars

\* dispatch goes on after the await of a rejected action: the catch block
\* logs and rethrows, and the promise of dispatch is rejected
DispatchRejects(t) ==
    /\ Idle
    /\ tasks[t].status = "threw"
    /\ tasks' = [tasks EXCEPT ![t].status = "rejected"]
    /\ UNCHANGED <<busVars, storeVars, stack, ret, budget, ghostBus, ghostStore,
                   lastCall, actions, getters, heap, actionEvents, reads, latest>>
    /\ UNCHANGED moduleVars

\* ============================================================== DataModule

\* the registry after the (name, function) pairs were set in it
SetAll(registry, pairs) ==
    [name \in DOMAIN registry \cup DOMAIN pairs |->
        IF name \in DOMAIN pairs THEN pairs[name] ELSE registry[name]]

\* ghost: the functions registered last, after the pairs were registered
LatestAll(was, pairs) ==
    [name \in DOMAIN was \cup DOMAIN pairs |->
        IF name \in DOMAIN pairs
        THEN [fn |-> pairs[name],
              replaced |-> name \in DOMAIN was
                           /\ (was[name].replaced \/ was[name].fn # pairs[name])]
        ELSE was[name]]

\* DataModule.setupStore(), run once by the module instance: store.state
\* is assigned a new record with new arrays, then the mutations, the
\* actions and the getters are registered
SetupStore ==
    /\ Idle
    /\ "users" \notin DOMAIN state
    /\ heap' = heap \o <<(<<DefaultAdmin>>), <<>>>>
    /\ state' = [users |-> Len(heap) + 1, processes |-> Len(heap) + 2] @@ state
    /\ mutations' = SetAll(mutations, DataMutations)
    /\ actions' = SetAll(actions, DataActions)
    /\ getters' = SetAll(getters, DataGetters)
    /\ latest' = [mutation |-> LatestAll(latest.mutation, DataMutations),
                  action |-> LatestAll(latest.action, DataActions),
                  getter |-> LatestAll(latest.getter, DataGetters)]
    /\ UNCHANGED <<busVars, subscribers, isCommitting, history, maxHistorySize, stack,
                   ret, budget, ghostBus, ghostStore, lastCall, tasks, actionEvents,
                   reads>>
    /\ UNCHANGED moduleVars

\* ================================================================= Storage

\* Storage.version, and the default of get('_version', '0.0.0')
StorageVersion == VersionString(1, 0, 0)
NoVersion == VersionString(0, 0, 0)

\* a < b on two strings: the first code unit that differs decides, and a
\* proper prefix is smaller
StringLess(a, b) ==
    \E i \in 1..Len(b) :
        /\ i <= Len(a) + 1
        /\ \A j \in 1..(i - 1) : a[j] = b[j]
        /\ (i = Len(a) + 1 \/ a[i] < b[i])

\* a map without the key
MapDelete(map, key) == [k \in DOMAIN map \ {key} |-> map[k]]

\* Map.set on a Map kept as its entries in insertion order: a key that is
\* there keeps its place
MapSet(entries, key, value) ==
    IF \E i \in 1..Len(entries) : entries[i][1] = key
    THEN [i \in 1..Len(entries) |->
             IF entries[i][1] = key THEN <<key, value>> ELSE entries[i]]
    ELSE Append(entries, <<key, value>>)

\* Array.sort(([a], [b]) => a.localeCompare(b)) on the entries; on strings
\* of digits and dots localeCompare orders as the code units do, and the
\* keys of a Map differ
RECURSIVE SortEntries(_)
SortEntries(entries) ==
    IF entries = <<>> THEN <<>>
    ELSE LET first ==
                 CHOOSE i \in 1..Len(entries) :
                     \A j \in 1..Len(entries) :
                         j = i \/ StringLess(entries[i][1], entries[j][1])
         IN <<entries[first]>>
            \o SortEntries([k \in 1..(Len(entries) - 1) |->
                               IF k < first THEN entries[k] ELSE entries[k + 1]])

\* JSON.stringify and JSON.parse of the record kept under a key
JSONStringify(data) == [json |-> data]
JSONParse(string) == string.json

\* Storage.getKey(key)
GetKey(prefix, key) == <<prefix, key>>

\* Storage.isExpired(data)
IsExpired(data, now) == data.expires # Null /\ now > data.expires

\* Storage.set(key, value): the record is written to localStorage and to
\* the cache.  A storage is the instance with the localStorage it works on.
StorageSet(storage, key, value, now) ==
    LET data == [value |-> value, timestamp |-> now, version |-> storage.self.version,
                 expires |-> Null]
    IN [self |-> [storage.self EXCEPT !.cache = (key :> data) @@ @],
        localStorage |-> (GetKey(storage.self.prefix, key) :> JSONStringify(data))
                         @@ storage.localStorage]

\* Storage.remove(key)
StorageRemove(storage, key) ==
    [self |-> [storage.self EXCEPT !.cache = MapDelete(@, key)],
     localStorage |-> MapDelete(storage.localStorage, GetKey(storage.self.prefix, key))]

\* Storage.get(key, defaultValue): the value, and the storage afterwards
\* (get fills the cache, and removes what has expired)
StorageGet(storage, key, defaultValue, now) ==
    LET fullKey == GetKey(storage.self.prefix, key)
        cached == storage.self.cache[key]
        fresh == key \in DOMAIN storage.self.cache /\ ~IsExpired(cached, now)
        after == IF key \in DOMAIN storage.self.cache
                 THEN StorageRemove(storage, key) ELSE storage
        data == JSONParse(after.localStorage[fullKey])
    IN IF fresh THEN [value |-> cached.value, storage |-> storage]
       ELSE IF fullKey \notin DOMAIN after.localStorage
       THEN [value |-> defaultValue, storage |-> after]
       ELSE IF IsExpired(data, now)
       THEN [value |-> defaultValue, storage |-> StorageRemove(after, key)]
       ELSE [value |-> data.value,
             storage |-> [after EXCEPT !.self.cache = (key :> data) @@ @]]

\* UserStorage.migrate_1_0_0(storage): the key 'user' is renamed
Migrate_1_0_0(storage, now) ==
    LET oldUserData == StorageGet(storage, "user", NoObject, now)
    IN IF oldUserData.value # NoObject
       THEN StorageRemove(StorageSet(oldUserData.storage, "currentUser",
                                     oldUserData.value, now), "user")
       ELSE oldUserData.storage

\* the migration the README gives as its example: 'oldKey' is moved to
\* 'newKey' (transformData is not given, it stands for a wrapper)
MoveOldKey(storage, now) ==
    LET oldData == StorageGet(storage, "oldKey", NoObject, now)
    IN StorageRemove(StorageSet(oldData.storage, "newKey",
                                [transformed |-> oldData.value], now), "oldKey")

\* the body of a migration function
MigrationBody(migrationFn, storage, now) ==
    CASE migrationFn = "migrate_1_0_0" -> Migrate_1_0_0(storage, now)
      [] migrationFn = "moveOldKey" -> MoveOldKey(storage, now)

\* the loop of runMigrations over the sorted migrations: the ones above
\* currentVersion and not above this.version run, in order
RECURSIVE RunEach(_, _, _, _)
RunEach(sorted, currentVersion, storage, now) ==
    IF sorted = <<>> THEN [storage |-> storage, ran |-> <<>>]
    ELSE LET version == Head(sorted)[1]
             due == /\ StringLess(currentVersion, version)
                    /\ ~StringLess(storage.self.version, version)
             next == IF due THEN MigrationBody(Head(sorted)[2], storage, now)
                     ELSE storage
             rest == RunEach(Tail(sorted), currentVersion, next, now)
         IN [storage |-> rest.storage,
             ran |-> IF due THEN <<version>> \o rest.ran ELSE rest.ran]

\* Storage.runMigrations(): the storage afterwards, the version found and
\* the migrations run
RunMigrationsOn(storage, now) ==
    LET currentVersion == StorageGet(storage, "_version", NoVersion, now)
        run == RunEach(SortEntries(storage.self.migrations), currentVersion.value,
                       currentVersion.storage, now)
    IN IF currentVersion.value = storage.self.version
       THEN [storage |-> currentVersion.storage, from |-> currentVersion.value,
             ran |-> <<>>]
       ELSE [storage |-> StorageSet(run.storage, "_version", storage.self.version, now),
             from |-> currentVersion.value, ran |-> run.ran]

\* new Storage(prefix): the fields are set, then init() runs the migrations
NewStorage(prefix, now) ==
    RunMigrationsOn([self |-> [prefix |-> prefix, version |-> StorageVersion,
                               migrations |-> <<>>, cache |-> <<>>],
                     localStorage |-> localStorage], now)

\* Storage.addMigration(version, migrationFn) on the instance
AddMigrationTo(self, version, migrationFn) ==
    [self EXCEPT !.migrations = MapSet(@, version, migrationFn)]

\* faulty variant: an empty array is not saved
SetAppDataNonEmpty(storage, data, now) ==
    LET orders == IF data.orders = <<>> THEN storage
                  ELSE StorageSet(storage, STORAGE_KEYS.ORDERS, data.orders, now)
        processes == IF data.processes = <<>> THEN orders
                     ELSE StorageSet(orders, STORAGE_KEYS.PROCESSES, data.processes, now)
        products == IF data.products = <<>> THEN processes
                    ELSE StorageSet(processes, STORAGE_KEYS.PRODUCTS, data.products, now)
    IN IF data.users = <<>> THEN products
       ELSE StorageSet(products, STORAGE_KEYS.USERS, data.users, now)

\* AppStorage.setAppData(data): an array is truthy, so each of the four
\* is set, in the order orders, processes, products, users
SetAppData(storage, data, now) ==
    LET orders == StorageSet(storage, STORAGE_KEYS.ORDERS, data.orders, now)
        processes == StorageSet(orders, STORAGE_KEYS.PROCESSES, data.processes, now)
        products == StorageSet(processes, STORAGE_KEYS.PRODUCTS, data.products, now)
    IN StorageSet(products, STORAGE_KEYS.USERS, data.users, now)

\* AppStorage.getAppData(): the four arrays, [] for a key that is not
\* there, and the storage afterwards
GetAppData(storage, now) ==
    LET orders == StorageGet(storage, STORAGE_KEYS.ORDERS, <<>>, now)
        processes == StorageGet(orders.storage, STORAGE_KEYS.PROCESSES, <<>>, now)
        products == StorageGet(processes.storage, STORAGE_KEYS.PRODUCTS, <<>>, now)
        users == StorageGet(products.storage, STORAGE_KEYS.USERS, <<>>, now)
    IN [value |-> [orders |-> orders.value, processes |-> processes.value,
                   products |-> products.value, users |-> users.value],
        storage |-> users.storage]

\* ghost: a runMigrations() call, the version it found, the migrations that
\* are registered when the caller is done, and the ones it ran
Migrated(during, run, registered) ==
    [during |-> during, from |-> run.from, ran |-> run.ran, registered |-> registered]

\* what an earlier version of the application left in localStorage, before
\* the module utils/storage.js is loaded
LegacyWrite(key, value, version) ==
    /\ userStorage = NoObject
    /\ GetKey(UserPrefix, key) \notin DOMAIN localStorage
    /\ localStorage' =
           (GetKey(UserPrefix, key) :>
                JSONStringify([value |-> value, timestamp |-> 0, version |-> version,
                               expires |-> Null]))
           @@ localStorage
    /\ UNCHANGED <<coreVars, userStorage, authModule, storageLog>>
    /\ UNCHANGED appVars

\* userStorage = new UserStorage(): super('oms_user_') runs init(), and
\* then the migration of the class is added
NewUserStorage ==
    /\ Idle
    /\ userStorage = NoObject
    /\ \E now \in Timestamps :
          LET super == NewStorage(UserPrefix, now)
          IN /\ userStorage' = AddMigrationTo(super.storage.self, VersionString(1, 0, 0),
                                              "migrate_1_0_0")
             /\ localStorage' = super.storage.localStorage
             /\ storageLog' = Append(storageLog,
                                     Migrated("constructor", super, userStorage'.migrations))
    /\ UNCHANGED <<coreVars, authModule>>
    /\ UNCHANGED appVars

\* appStorage = new AppStorage(), when utils/storage.js is loaded, after
\* userStorage
NewAppStorage ==
    /\ Idle
    /\ userStorage # NoObject
    /\ appStorage = NoObject
    /\ \E now \in Timestamps :
          LET made == NewStorage(AppPrefix, now)
          IN /\ appStorage' = made.storage.self
             /\ localStorage' = made.storage.localStorage
    /\ UNCHANGED <<coreVars, userStorage, authModule, storageLog, router, window>>

\* userStorage.addMigration(version, migrationFn), called from the top level
AddMigration(version, migrationFn) ==
    /\ Idle
    /\ userStorage # NoObject
    /\ userStorage' = AddMigrationTo(userStorage, version, migrationFn)
    /\ UNCHANGED <<coreVars, localStorage, authModule, storageLog>>
    /\ UNCHANGED appVars

\* userStorage.runMigrations(), called from the top level
RunMigrations ==
    /\ Idle
    /\ userStorage # NoObject
    /\ \E now \in Timestamps :
          LET run == RunMigrationsOn([self |-> userStorage,
                                      localStorage |-> localStorage], now)
          IN /\ userStorage' = run.storage.self
             /\ localStorage' = run.storage.localStorage
             /\ storageLog' = Append(storageLog,
                                     Migrated("call", run, userStorage.migrations))
    /\ UNCHANGED <<coreVars, authModule>>
    /\ UNCHANGED appVars

\* userStorage.set(key, value), called from the top level
UserStorageSet(key, value) ==
    /\ Idle
    /\ userStorage # NoObject
    /\ \E now \in Timestamps :
          LET after == StorageSet([self |-> userStorage, localStorage |-> localStorage],
                                  key, value, now)
          IN /\ userStorage' = after.self
             /\ localStorage' = after.localStorage
    /\ UNCHANGED <<coreVars, authModule, storageLog>>
    /\ UNCHANGED appVars

\* userStorage.remove(key), called from the top level
UserStorageRemove(key) ==
    /\ Idle
    /\ userStorage # NoObject
    /\ LET after == StorageRemove([self |-> userStorage, localStorage |-> localStorage],
                                  key)
       IN /\ userStorage' = after.self
          /\ localStorage' = after.localStorage
    /\ UNCHANGED <<coreVars, authModule, storageLog>>
    /\ UNCHANGED appVars

\* ======================================================== the modules

\* this.events, the listener objects and their ghost records after
\* on(event, callback) was called for each pair, in order
RECURSIVE OnEach(_, _)
OnEach(bus, pairs) ==
    IF pairs = <<>> THEN bus
    ELSE LET event == Head(pairs)[1]
             id == Len(bus.lst) + 1
         IN OnEach([lst |-> Append(bus.lst,
                                   Listener(Head(pairs)[2],
                                            [once |-> FALSE, context |-> Null])),
                    events |-> IF event \in DOMAIN bus.events
                               THEN [bus.events EXCEPT ![event] = Append(@, id)]
                               ELSE bus.events @@ (event :> <<id>>),
                    lifetime |-> Append(bus.lifetime, Born(event))],
                   Tail(pairs))

\* the bus as it is
Bus == [lst |-> lst, events |-> events, lifetime |-> lifetime]

\* authModule = new AuthModule(), when modules/AuthModule.js is loaded:
\* setupStore(), setupEventListeners(), loadCurrentUser() over a storage
\* that holds no saved user, and emit(APP_INIT), which nobody listens to
NewAuthModule ==
    /\ Idle
    /\ userStorage # NoObject
    /\ authModule = NoObject
    /\ GetKey(userStorage.prefix, STORAGE_KEYS.CURRENT_USER) \notin DOMAIN localStorage
    /\ EVENTS.APP_INIT \notin DOMAIN events
    /\ authModule' = [currentUser |-> NoObject, isInitialized |-> TRUE]
    /\ mutations' = SetAll(mutations, AuthMutations)
    /\ actions' = SetAll(actions, AuthActions)
    /\ getters' = SetAll(getters, AuthGetters)
    /\ latest' = [mutation |-> LatestAll(latest.mutation, AuthMutations),
                  action |-> LatestAll(latest.action, AuthActions),
                  getter |-> LatestAll(latest.getter, AuthGetters)]
    /\ LET bus == OnEach(Bus, <<(<<EVENTS.USER_LOGOUT, "logout">>)>>)
       IN /\ lst' = bus.lst
          /\ events' = bus.events
          /\ lifetime' = bus.lifetime
    /\ UNCHANGED <<state, subscribers, isCommitting, history, maxHistorySize, stack, ret,
                   budget, rounds, ghostStore, lastCall, heap, tasks, actionEvents,
                   reads, localStorage, userStorage, storageLog>>
    /\ UNCHANGED appVars

\* App.setupEventListeners(): the listeners that navigate after a login
\* and after a logout
NewApp ==
    /\ Idle
    /\ "users" \in DOMAIN state
    /\ EVENTS.USER_LOGIN \notin DOMAIN events
    /\ LET bus == OnEach(Bus, <<(<<EVENTS.USER_LOGIN, "navigate">>),
                                (<<EVENTS.USER_LOGOUT, "navigate">>)>>)
       IN /\ lst' = bus.lst
          /\ events' = bus.events
          /\ lifetime' = bus.lifetime
    /\ UNCHANGED <<storeVars, stack, ret, budget, rounds, ghostStore, lastCall,
                   dispatchVars, heap>>
    /\ UNCHANGED moduleVars

\* orderModule = new OrderModule(): setupStore() and setupEventListeners(),
\* and emit(APP_INIT), which nobody listens to
NewOrderModule ==
    /\ Idle
    /\ "users" \in DOMAIN state
    /\ "createOrder" \notin DOMAIN actions
    /\ EVENTS.APP_INIT \notin DOMAIN events
    /\ actions' = SetAll(actions, OrderActions)
    /\ latest' = [latest EXCEPT !.action = LatestAll(@, OrderActions)]
    /\ LET bus == OnEach(Bus, <<(<<EVENTS.ORDER_CREATED, "refreshOrderBoard">>),
                                (<<EVENTS.ORDER_UPDATED, "refreshOrderBoard">>),
                                (<<EVENTS.ORDER_DELETED, "refreshOrderBoard">>)>>)
       IN /\ lst' = bus.lst
          /\ events' = bus.events
          /\ lifetime' = bus.lifetime
    /\ UNCHANGED <<storeVars, stack, ret, budget, rounds, ghostStore, lastCall, getters,
                   heap, tasks, actionEvents, reads>>
    /\ UNCHANGED moduleVars

\* processModule = new ProcessModule(), after orderModule
NewProcessModule ==
    /\ Idle
    /\ "createOrder" \in DOMAIN actions
    /\ "deleteProcess" \notin DOMAIN actions
    /\ EVENTS.APP_INIT \notin DOMAIN events
    /\ actions' = SetAll(actions, ProcessActions)
    /\ latest' = [latest EXCEPT !.action = LatestAll(@, ProcessActions)]
    /\ LET bus == OnEach(Bus, <<(<<EVENTS.PROCESS_CREATED, "refreshProcessBoard">>),
                                (<<EVENTS.PROCESS_UPDATED, "refreshProcessBoard">>),
                                (<<EVENTS.PROCESS_DELETED, "refreshProcessBoard">>)>>)
       IN /\ lst' = bus.lst
          /\ events' = bus.events
          /\ lifetime' = bus.lifetime
    /\ UNCHANGED <<storeVars, stack, ret, budget, rounds, ghostStore, lastCall, getters,
                   heap, tasks, actionEvents, reads>>
    /\ UNCHANGED moduleVars

\* userModule = new UserModule(): setupStore() and setupEventListeners()
\* (of its actions createUser and updateUser are the ones kept), and
\* emit(APP_INIT)
NewUserModule ==
    /\ Idle
    /\ "users" \in DOMAIN state
    /\ "createUser" \notin DOMAIN actions
    /\ EVENTS.APP_INIT \notin DOMAIN events
    /\ actions' = SetAll(actions, UserActions)
    /\ latest' = [latest EXCEPT !.action = LatestAll(@, UserActions)]
    /\ LET bus == OnEach(Bus, <<(<<EVENTS.USER_CREATED, "refreshUserList">>),
                                (<<EVENTS.USER_UPDATED, "refreshUserList">>)>>)
       IN /\ lst' = bus.lst
          /\ events' = bus.events
          /\ lifetime' = bus.lifetime
    /\ UNCHANGED <<storeVars, stack, ret, budget, rounds, ghostStore, lastCall, getters,
                   heap, tasks, actionEvents, reads>>
    /\ UNCHANGED moduleVars

\* store.getGetter('users'), read inside a method
Users == GetterBody(getters["users"], state, getters)

\* AuthModule.hasRole(role)
HasRole(role) ==
    authModule.currentUser # NoObject /\ authModule.currentUser.role = role

\* validators.required, minLength, maxLength on a string, and the rules
\* of email and phone, which pass an empty value
Required(value) == value # ""
MinLength(min, value) == value = "" \/ Len(value) >= min
MaxLength(max, value) == value = "" \/ Len(value) <= max
Pattern(value) == value = "" \/ value \in WellFormed

\* createUserValidator().validate(userData)
Validate(userData) ==
    /\ Required(userData.name)
    /\ MinLength(2, userData.name)
    /\ MaxLength(100, userData.name)
    /\ Pattern(userData.email)
    /\ Pattern(userData.phone)
    /\ Required(userData.password)
    /\ MinLength(VALIDATION.PASSWORD.MIN_LENGTH, userData.password)
    /\ MaxLength(VALIDATION.PASSWORD.MAX_LENGTH, userData.password)
    /\ Required(userData.role)

\* users.find(u => u.email === userData.email || u.phone === userData.phone
\* || u.name === userData.name) finds a user
Existing(users, userData) ==
    \E i \in 1..Len(users) :
        \/ users[i].email = userData.email
        \/ users[i].phone = userData.phone
        \/ users[i].name = userData.name

\* AuthModule.authenticateUser(username, password), past its timer
AuthenticateUser(credentials, now) ==
    LET found == {i \in 1..Len(Users) :
                     /\ \/ Users[i].name = credentials.username
                        \/ Users[i].email = credentials.username
                        \/ Users[i].phone = credentials.username
                     /\ Users[i].password = credentials.password
                     /\ Users[i].isActive # FALSE}
    IN IF found = {} THEN NoObject ELSE Authenticated(Users[Min(found)], now)

\* the user record registerUser builds
RegisteredUser(userData, now) ==
    [id |-> now, isActive |-> TRUE, createdAt |-> ToISOString(now),
     createdBy |-> authModule.currentUser.id] @@ userData

\* generateId(prefix), of utils/helpers.js: an id no other call gives (the
\* call made by the function that is running)
GenerateId == 100 + Top.task

\* array.find(x => x.id === id): the first element with the id, or undefined
FindById(arr, id) ==
    LET found == {i \in 1..Len(arr) : arr[i].id = id}
    IN IF found = {} THEN NoObject ELSE arr[Min(found)]

\* currentUser.isAdmin is truthy
IsAdmin(user) == "isAdmin" \in DOMAIN user /\ user.isAdmin = TRUE

\* updateData after the deletes made for a user who is no administrator
Stripped(updateData) ==
    [k \in DOMAIN updateData \ {"role", "isActive", "permissions"} |-> updateData[k]]

\* UserModule.getRolePermissions(role)
GetRolePermissions(role) == <<"ROLE_PERMISSIONS", role>>

\* the user record updateUser builds: {...user, ...updateData, updatedAt,
\* updatedBy}
UpdatedUser(user, updateData, currentUser, now) ==
    LET kept == IF IsAdmin(currentUser) THEN updateData ELSE Stripped(updateData)
        data == IF "role" \in DOMAIN kept /\ kept.role # user.role
                THEN [permissions |-> GetRolePermissions(kept.role)] @@ kept
                ELSE kept
    IN [updatedAt |-> ToISOString(now), updatedBy |-> currentUser.id] @@ data @@ user

\* the user record createUser builds (of its fields, the ones no code
\* here reads are left out)
CreatedUser(userData, currentUser, now) ==
    [id |-> GenerateId, name |-> userData.name, email |-> userData.email,
     phone |-> userData.phone, password |-> userData.password, role |-> userData.role,
     processes |-> <<>>, isActive |-> TRUE, createdAt |-> ToISOString(now),
     createdBy |-> currentUser.id]

\* ---------------------------------------------------------- the orders
\* null where the id of a process is expected
NullId == 0 - 2

\* Number.isNaN: what parseInt gives for a string that starts with no digit
NaN == 0 - 3

\* the date string of generateOrderNumber: the day as YYMMDD
Today == "261102"

\* an id that is truthy: not null and not 0
Truthy(id) == id # NullId /\ id # 0

\* store.getGetter('orders'), read inside a method
Orders == GetterBody(getters["orders"], state, getters)

\* String.prototype.startsWith, split('-'), padStart(length, '0'), and
\* parseInt on a string of characters
StartsWith(string, prefix) ==
    Len(string) >= Len(prefix) /\ SubSeq(string, 1, Len(prefix)) = prefix
RECURSIVE Split(_)
Split(string) ==
    LET cut == Min({i \in 1..Len(string) : SubSeq(string, i, i) = "-"}
                   \cup {Len(string) + 1})
    IN IF cut > Len(string) THEN <<string>>
       ELSE <<SubSeq(string, 1, cut - 1)>>
            \o Split(SubSeq(string, cut + 1, Len(string)))
RECURSIVE PadStart(_, _)
PadStart(string, length) ==
    IF Len(string) >= length THEN string ELSE PadStart("0" \o string, length)
IsDigit(char) == \E d \in 0..9 : ToString(d) = char
Digit(char) == CHOOSE d \in 0..9 : ToString(d) = char
RECURSIVE ParseDigits(_, _)
ParseDigits(string, value) ==
    IF string = "" \/ ~IsDigit(SubSeq(string, 1, 1)) THEN value
    ELSE ParseDigits(SubSeq(string, 2, Len(string)),
                     10 * value + Digit(SubSeq(string, 1, 1)))
ParseInt(string) ==
    IF string = "" \/ ~IsDigit(SubSeq(string, 1, 1)) THEN NaN
    ELSE ParseDigits(string, 0)

\* the number generateOrderNumber gives for the count nextNumber
OrderNumber(nextNumber) == Today \o "-" \o PadStart(ToString(nextNumber), 3)

\* faulty variant: the next number is the count of the orders of the day
\* plus one
GenerateOrderNumberByCount(orders) ==
    OrderNumber(Cardinality({i \in 1..Len(orders) :
                                StartsWith(orders[i].number, Today)}) + 1)

\* OrderModule.generateOrderNumber(): the largest number of the orders of
\* the day plus one, 1 when there is none
GenerateOrderNumber(orders) ==
    LET ofToday == {i \in 1..Len(orders) :
                       orders[i].number # "" /\ StartsWith(orders[i].number, Today)}
        parsed == {IF Len(Split(orders[i].number)) > 1
                   THEN ParseInt(Split(orders[i].number)[2]) ELSE 0 : i \in ofToday}
        existingNumbers == parsed \ {NaN}
    IN OrderNumber(IF existingNumbers # {} THEN Max(existingNumbers) + 1 ELSE 1)

\* createOrderValidator().validate(orderData); the product id and the
\* quantity are numbers
ValidateOrder(orderData) ==
    /\ Required(orderData.clientName)
    /\ MinLength(VALIDATION.CLIENT_NAME.MIN_LENGTH, orderData.clientName)
    /\ MaxLength(VALIDATION.CLIENT_NAME.MAX_LENGTH, orderData.clientName)
    /\ Pattern(orderData.clientPhone)
    /\ orderData.quantity = 0 \/ orderData.quantity >= 1

\* the order record createOrder builds (of its fields, the ones no code
\* here reads are left out)
NewOrder(orderData, orderNumber, currentUser) ==
    [id |-> GenerateId, number |-> orderNumber, clientName |-> orderData.clientName,
     productId |-> orderData.productId,
     quantity |-> IF orderData.quantity = 0 THEN 1 ELSE orderData.quantity,
     currentProcessId |-> NullId, status |-> ORDER_STATUS.CREATED,
     defectInfo |-> [isDefective |-> FALSE, reason |-> Null],
     createdBy |-> currentUser.id]

\* OrderModule.canUserMoveOrder(order, user, toProcessId)
CanUserMoveOrder(order, user, toProcessId) ==
    \/ IsAdmin(user)
    \/ /\ Truthy(order.currentProcessId) => order.currentProcessId \in Range(user.processes)
       /\ Truthy(toProcessId) => toProcessId \in Range(user.processes)

\* the order records updateOrder, moveOrder, sendOrderToDefect and
\* fixDefectOrder build
ChangedOrder(order, updateData, currentUser) ==
    [updatedBy |-> currentUser.id] @@ updateData @@ order
MovedOrder(order, toProcessId, currentUser) ==
    [currentProcessId |-> IF toProcessId = 0 THEN NullId ELSE toProcessId,
     status |-> IF Truthy(toProcessId) THEN ORDER_STATUS.IN_PROGRESS
                ELSE ORDER_STATUS.COMPLETED,
     updatedBy |-> currentUser.id] @@ order
DefectOrder(order, reason, currentUser) ==
    [defectInfo |-> [isDefective |-> TRUE, reason |-> reason,
                     reportedBy |-> currentUser.id],
     status |-> ORDER_STATUS.DEFECT, updatedBy |-> currentUser.id] @@ order
FixedOrder(order, comment, currentUser) ==
    [defectInfo |-> [isDefective |-> FALSE, fixedBy |-> currentUser.id,
                     fixComment |-> comment] @@ order.defectInfo,
     status |-> IF Truthy(order.currentProcessId) THEN ORDER_STATUS.IN_PROGRESS
                ELSE ORDER_STATUS.COMPLETED,
     updatedBy |-> currentUser.id] @@ order

\* the id of the order the action is called with
OrderId(t) ==
    CASE t.fn = "deleteOrder" -> t.payload
      [] t.fn = "updateOrder" -> t.payload.id
      [] OTHER -> t.payload.orderId

\* the updated order of the action
UpdatedOrder(t) ==
    CASE t.fn = "updateOrder" ->
           ChangedOrder(t.local.order, t.payload.data, t.local.currentUser)
      [] t.fn = "moveOrder" ->
           MovedOrder(t.local.order, t.payload.toProcessId, t.local.currentUser)
      [] t.fn = "sendOrderToDefect" ->
           DefectOrder(t.local.order, t.payload.reason, t.local.currentUser)
      [] t.fn = "fixDefectOrder" ->
           FixedOrder(t.local.order, t.payload.comment, t.local.currentUser)

\* store.getGetter('getOrdersByProcess')(processId)
GetOrdersByProcess(processId) ==
    SelectSeq(Orders, LAMBDA o : o.currentProcessId = processId)

\* ---------------------------------------------------------- the router
\* the routes App.setupRouting() adds, in the order it adds them
Routes ==
    <<[path |-> "/", name |-> "dashboard"], [path |-> "/login", name |-> "login"],
      [path |-> "/logout", name |-> "logout"], [path |-> "/orders", name |-> "orders"],
      [path |-> "/orders/:id", name |-> "order-details"],
      [path |-> "/users", name |-> "users"]>>

\* String.prototype.split(separator)
RECURSIVE SplitAt(_, _)
SplitAt(string, separator) ==
    LET cut == Min({i \in 1..Len(string) : SubSeq(string, i, i) = separator}
                   \cup {Len(string) + 1})
    IN IF cut > Len(string) THEN <<string>>
       ELSE <<SubSeq(string, 1, cut - 1)>>
            \o SplitAt(SubSeq(string, cut + 1, Len(string)), separator)

\* Router.getCurrentPath() in hash mode
GetCurrentPath(w) == IF Len(w.hash) <= 1 THEN "/" ELSE SubSeq(w.hash, 2, Len(w.hash))

\* Router.parseParams(pattern, path): the parameters as pairs of name and
\* value, NoObject for null
ParseParams(pattern, path) ==
    LET patternParts == SplitAt(pattern, "/")
        pathParts == SplitAt(path, "/")
    IN IF Len(patternParts) # Len(pathParts) THEN NoObject
       ELSE IF \E i \in 1..Len(patternParts) :
                  /\ ~StartsWith(patternParts[i], ":")
                  /\ patternParts[i] # pathParts[i]
            THEN NoObject
            ELSE [params |->
                     {<<SubSeq(patternParts[i], 2, Len(patternParts[i])), pathParts[i]>> :
                         i \in {j \in 1..Len(patternParts) :
                                   StartsWith(patternParts[j], ":")}}]

\* Router.findRoute(path): the route of that path, or else the first route
\* whose pattern the path matches; NoObject for null
FindRoute(routes, path) ==
    LET exact == {i \in 1..Len(routes) : routes[i].path = path}
        matching == {i \in 1..Len(routes) : ParseParams(routes[i].path, path) # NoObject}
    IN IF exact # {}
       THEN [name |-> routes[Min(exact)].name, pattern |-> path, params |-> {}]
       ELSE IF matching # {}
            THEN [name |-> routes[Min(matching)].name,
                  pattern |-> routes[Min(matching)].path,
                  params |-> ParseParams(routes[Min(matching)].path, path).params]
            ELSE NoObject

\* window.location.hash = path: a new hash is a new entry of the history
\* and a hashchange event to come
Push(w, path) ==
    IF w.hash = "#" \o path THEN w
    ELSE [w EXCEPT !.hash = "#" \o path, !.hashchange = @ + 1, !.length = @ + 1]

\* faulty variant: the hook sends to /login and lets the navigation go on
BeforeEachGoesOn(path, authenticated) ==
    [result |-> TRUE, push |-> path # "/login" /\ ~authenticated]

\* the beforeEach hook of App.setupRouting(): what it returns and whether it
\* calls router.push('/login')
BeforeEach(path, authenticated) ==
    IF path # "/login" /\ ~authenticated
    THEN [result |-> FALSE, push |-> TRUE]
    ELSE [result |-> TRUE, push |-> FALSE]

\* AuthModule.isAuthenticated()
IsAuthenticated == authModule.currentUser # NoObject

\* the value of the expression a method assigns to its local
Local(arg, t, now) ==
    CASE arg = "this.currentUser" -> authModule.currentUser
      [] arg = "authenticateUser" -> AuthenticateUser(t.payload, now)
      [] arg = "getGetter.currentUser" -> GetterBody(getters["currentUser"], state, getters)
      [] arg = "registeredUser" -> RegisteredUser(t.payload, now)
      [] arg = "createdUser" -> CreatedUser(t.payload, t.local, now)
      [] arg = "getUserById" -> [user |-> FindById(Users, t.payload.id)]
      [] arg = "currentUser" ->
           [currentUser |-> GetterBody(getters["currentUser"], state, getters)] @@ t.local
      [] arg = "updatedUser" ->
           [updatedUser |-> UpdatedUser(t.local.user, t.payload.data,
                                        t.local.currentUser, now)] @@ t.local
      [] arg = "getOrderById" -> [order |-> FindById(Orders, OrderId(t))]
      [] arg = "routeMatch" ->
           [path |-> GetCurrentPath(window),
            match |-> FindRoute(router.routes, GetCurrentPath(window)),
            from |-> router.currentRoute]
      [] arg = "orderNumber" -> [number |-> GenerateOrderNumber(Orders)]
      [] arg = "newOrder" ->
           [order |-> NewOrder(t.payload, t.local.number, t.local.currentUser)]
           @@ t.local
      [] arg = "updatedOrder" -> [updated |-> UpdatedOrder(t)] @@ t.local
      [] arg = "getProcessById" ->
           [found |-> t.payload \in Range(heap[state.processes])]
      [] arg = "first" -> [i |-> 1] @@ t.local
      [] arg = "next" -> [i |-> t.local.i + 1] @@ t.local
      [] arg = "null" -> NoObject

\* the condition of an if of a method holds
Passes(cond, t) ==
    CASE cond = "user" -> t.local # NoObject
      [] cond = "hasRole.admin" -> HasRole(USER_ROLES.ADMIN)
      [] cond = "valid" -> Validate(t.payload)
      [] cond = "unique" -> ~Existing(Users, t.payload)
      [] cond = "currentUser.isAdmin" -> "isAdmin" \in DOMAIN t.local /\ t.local.isAdmin
      [] cond = "data.users.length" -> Len(t.local.users) > 0
      [] cond = "user.found" -> t.local.user # NoObject
      [] cond = "canEdit" ->
           IsAdmin(t.local.currentUser) \/ t.payload.id = t.local.currentUser.id
      [] cond = "own" -> t.payload.id = t.local.currentUser.id
      [] cond = "validOrder" -> ValidateOrder(t.payload)
      [] cond = "route.found" -> t.local.match # NoObject
      [] cond = "result" -> t.local.result
      [] cond = "order.found" -> t.local.order # NoObject
      [] cond = "order.defective" ->
           t.local.order # NoObject /\ t.local.order.defectInfo.isDefective
      [] cond = "canUserMoveOrder" ->
           CanUserMoveOrder(t.local.order, t.local.currentUser, t.payload.toProcessId)
      [] cond = "canDelete" ->
           IsAdmin(t.local.currentUser)
           \/ t.local.order.createdBy = t.local.currentUser.id
      [] cond = "isAdmin" -> IsAdmin(t.local.currentUser)
      [] cond = "process.found" -> t.local.found
      [] cond = "processEmpty" -> GetOrdersByProcess(t.payload) = <<>>
      [] cond = "products.more" -> t.local.i <= Len(heap[state.products])
      [] cond = "product.includes" ->
           t.payload \in Range(heap[state.products][t.local.i].processes)
      [] cond = "users.more" -> t.local.i <= Len(heap[state.users])
      [] cond = "user.includes" ->
           t.payload \in Range(heap[state.users][t.local.i].processes)
      [] cond = "false" -> FALSE

\* evaluating the expression raises: a getter that is not registered, a
\* property of null
Raises(arg, t) ==
    CASE arg \in {"authenticateUser", "unique", "getUserById"} ->
           "users" \notin DOMAIN getters
      [] arg \in {"getGetter.currentUser", "currentUser"} ->
           "currentUser" \notin DOMAIN getters
      [] arg \in {"canEdit", "newOrder", "updatedOrder", "canUserMoveOrder", "canDelete",
                  "isAdmin"} ->
           t.local.currentUser = NoObject
      [] arg \in {"getOrderById", "orderNumber"} -> "orders" \notin DOMAIN getters
      [] arg = "currentUser.isAdmin" -> t.local = NoObject
      [] arg = "registeredUser" -> authModule.currentUser = NoObject
      [] OTHER -> FALSE

\* the statement of the catch block of a method
Handler(fn) ==
    CASE fn = "login" -> 13
      [] fn = "logout" -> 7
      [] fn = "registerUser" -> 11
      [] fn = "createUser" -> 12
      [] fn = "loadData" -> 10
      [] fn = "updateUser" -> 13
      [] fn = "createOrder" -> 9
      [] fn = "handleRoute" -> 15
      [] fn \in {"updateOrder", "sendOrderToDefect", "fixDefectOrder"} -> 9
      [] fn = "deleteOrder" -> 10
      [] fn = "moveOrder" -> 11
      [] fn = "deleteProcess" -> 24

\* a method called directly: the task of an async function that is no
\* store action
MethodTask(method, payload, caller) ==
    [name |-> method, payload |-> payload, fn |-> Methods[method],
     getters |-> getters, pc |-> 1, local |-> NoObject, result |-> None,
     status |-> "running", cids |-> <<>>, caller |-> caller,
     before |-> [currentUser |-> IF authModule = NoObject THEN NoObject
                                 ELSE authModule.currentUser,
                 users |-> IF "users" \in DOMAIN getters THEN Users ELSE <<>>,
                 commits |-> Len(commits), rounds |-> Len(rounds)]]

\* the task is a direct method call
IsCall(t) == tasks[t].name \in DOMAIN Methods

\* dataModule = new DataModule(), when modules/DataModule.js is loaded:
\* setupStore(), where the new state is {...store.state, users: [...], ...,
\* currentUser: null}, setupEventListeners(), and the call of loadData(),
\* which runs as the steps of its task.  (emit(APP_INIT) follows; nobody
\* listens to it.)
NewDataModule ==
    /\ Idle
    /\ appStorage # NoObject
    /\ "users" \notin DOMAIN state
    /\ heap' = heap \o <<(<<DEFAULT_ADMIN>>), <<>>, <<>>, <<>>>>
    /\ state' = [users |-> Len(heap) + 1, processes |-> Len(heap) + 2,
                 products |-> Len(heap) + 3, orders |-> Len(heap) + 4,
                 currentUser |-> NoObject] @@ state
    /\ mutations' = SetAll(mutations, StoreMutations)
    /\ actions' = SetAll(actions, DataActions)
    /\ getters' = SetAll(getters, StoreGetters)
    /\ latest' = [mutation |-> LatestAll(latest.mutation, StoreMutations),
                  action |-> LatestAll(latest.action, DataActions),
                  getter |-> LatestAll(latest.getter, StoreGetters)]
    /\ LET bus == OnEach(Bus, <<(<<MutationTopic, "autosave">>)>>)
       IN /\ lst' = bus.lst
          /\ events' = bus.events
          /\ lifetime' = bus.lifetime
    /\ tasks' = Append(tasks, MethodTask("dataModule.loadData", None, "top"))
    /\ stack' = <<ActionFrame(Len(tasks) + 1)>>
    /\ UNCHANGED <<subscribers, isCommitting, history, maxHistorySize, ret, budget,
                   rounds, ghostStore, lastCall, actionEvents, reads>>
    /\ UNCHANGED moduleVars

\* the calls of functions in progress
Depth == Cardinality({k \in 1..Len(stack) : stack[k].kind = "action"})

\* authModule.login / logout / registerUser, called from the top level
Call(method, payload) ==
    /\ Idle
    /\ authModule # NoObject
    /\ "users" \in DOMAIN getters
    /\ budget' = [budget EXCEPT !.call = @ + 1]
    /\ tasks' = Append(tasks, MethodTask(method, payload, "top"))
    /\ stack' = <<ActionFrame(Len(tasks) + 1)>>
    /\ UNCHANGED <<busVars, storeVars, ret, ghostBus, ghostStore, lastCall, actions,
                   getters, heap, actionEvents, reads, latest>>
    /\ UNCHANGED moduleVars

\* the method assigns its local
ActionLets ==
    /\ AtAction
    /\ Statement.op = "let"
    /\ \E now \in Timestamps :
          tasks' = IF Raises(Statement.arg, ThisTask)
                   THEN [tasks EXCEPT ![Top.task].pc = Handler(ThisTask.fn)]
                   ELSE [tasks EXCEPT ![Top.task].local = Local(Statement.arg, ThisTask, now),
                                      ![Top.task].pc = @ + 1]
    /\ UNCHANGED <<busVars, storeVars, stack, ret, budget, ghostBus, ghostStore, lastCall,
                   actions, getters, heap, actionEvents, reads, latest>>
    /\ UNCHANGED moduleVars

\* the method is at an if: it goes on when the condition holds, to the
\* else branch when it does not, and to its catch block when evaluating
\* the condition raises
ActionBranches ==
    /\ AtAction
    /\ Statement.op = "if"
    /\ tasks' = [tasks EXCEPT ![Top.task].pc =
                    IF Raises(Statement.cond, ThisTask) THEN Handler(ThisTask.fn)
                    ELSE IF Passes(Statement.cond, ThisTask) THEN @ + 1
                    ELSE Statement.else]
    /\ UNCHANGED <<busVars, storeVars, stack, ret, budget, ghostBus, ghostStore, lastCall,
                   actions, getters, heap, actionEvents, reads, latest>>
    /\ UNCHANGED moduleVars

\* the method assigns this.currentUser
ActionSetsThis ==
    /\ AtAction
    /\ Statement.op = "this.currentUser"
    /\ authModule' = [authModule EXCEPT !.currentUser =
                         IF Statement.arg = "null" THEN NoObject ELSE ThisTask.local]
    /\ tasks' = [tasks EXCEPT ![Top.task].pc = @ + 1]
    /\ UNCHANGED <<busVars, storeVars, stack, ret, budget, ghostBus, ghostStore, lastCall,
                   actions, getters, heap, actionEvents, reads, latest>>
    /\ UNCHANGED <<localStorage, userStorage, storageLog>>
    /\ UNCHANGED appVars

\* the method calls userStorage.setCurrentUser(user) or clearUserData()
ActionStores ==
    /\ AtAction
    /\ Statement.op = "userStorage"
    /\ \E now \in Timestamps :
          LET storage == [self |-> userStorage, localStorage |-> localStorage]
              after == IF Statement.method = "setCurrentUser"
                       THEN StorageSet(storage, STORAGE_KEYS.CURRENT_USER,
                                       ThisTask.local, now)
                       ELSE StorageRemove(storage, STORAGE_KEYS.CURRENT_USER)
          IN /\ userStorage' = after.self
             /\ localStorage' = after.localStorage
    /\ tasks' = [tasks EXCEPT ![Top.task].pc = @ + 1]
    /\ UNCHANGED <<busVars, storeVars, stack, ret, budget, ghostBus, ghostStore, lastCall,
                   actions, getters, heap, actionEvents, reads, latest>>
    /\ UNCHANGED <<authModule, storageLog>>
    /\ UNCHANGED appVars

\* loadData calls appStorage.getAppData()
ActionLoads ==
    /\ AtAction
    /\ Statement.op = "appStorage"
    /\ \E now \in Timestamps :
          LET got == GetAppData([self |-> appStorage, localStorage |-> localStorage], now)
          IN /\ appStorage' = got.storage.self
             /\ localStorage' = got.storage.localStorage
             /\ tasks' = [tasks EXCEPT ![Top.task].local = got.value,
                                       ![Top.task].pc = @ + 1]
    /\ UNCHANGED <<busVars, storeVars, stack, ret, budget, ghostBus, ghostStore, lastCall,
                   actions, getters, heap, actionEvents, reads, latest>>
    /\ UNCHANGED <<userStorage, authModule, storageLog, router, window>>

\* the method calls eventBus.emit: a round of the topic, when the topic
\* has listeners
ActionEmits ==
    /\ AtAction
    /\ Statement.op = "emit"
    /\ LET data == Value(Statement.arg, ThisTask)
       IN IF Statement.event \notin DOMAIN events
          THEN /\ tasks' = [tasks EXCEPT ![Top.task].pc = @ + 1]
               /\ UNCHANGED <<stack, rounds, ret>>
          ELSE /\ stack' = Append(Append(Below, [Top EXCEPT !.pc = "inemit"]),
                                  EmitFrame(Statement.event, data))
               /\ rounds' = Append(rounds, Round(Statement.event, data))
               /\ ret' = "none"
               /\ UNCHANGED tasks
    /\ UNCHANGED <<busVars, storeVars, budget, lifetime, ghostStore, lastCall, actions,
                   getters, heap, actionEvents, reads, latest>>
    /\ UNCHANGED moduleVars

\* the emit call of the method is over
ActionEmitted ==
    /\ ~Idle
    /\ Top.kind = "action"
    /\ Top.pc = "inemit"
    /\ tasks' = [tasks EXCEPT ![Top.task].pc = @ + 1]
    /\ stack' = Append(Below, [Top EXCEPT !.pc = "run"])
    /\ UNCHANGED <<busVars, storeVars, ret, budget, ghostBus, ghostStore, lastCall,
                   actions, getters, heap, actionEvents, reads, latest>>
    /\ UNCHANGED moduleVars

\* the method awaits store.dispatch(name, arg).  A name that is not
\* registered gives a rejected promise at once; else the action function
\* runs, up to its first await.  The method is suspended in both cases.
ActionDispatches ==
    /\ AtAction
    /\ Statement.op = "dispatch"
    /\ LET called == Task(Statement.name, Value(Statement.arg, ThisTask))
           waiting == [awaits |-> Len(tasks) + 1]
                      @@ [ThisTask EXCEPT !.status = "awaiting", !.pc = @ + 1]
       IN /\ tasks' = Append([tasks EXCEPT ![Top.task] = waiting], called)
          /\ stack' = IF Statement.name \in DOMAIN actions
                      THEN Append(Below, ActionFrame(Len(tasks) + 1))
                      ELSE Below
    /\ UNCHANGED <<busVars, storeVars, ret, budget, ghostBus, ghostStore, lastCall,
                   actions, getters, heap, actionEvents, reads, latest>>
    /\ UNCHANGED moduleVars

\* the promise the method t awaits is settled: the method goes on, in its
\* catch block when the promise was rejected
ActionAwaited(t) ==
    /\ Idle
    /\ tasks[t].status = "awaiting"
    /\ tasks[tasks[t].awaits].status \in {"fulfilled", "rejected"}
    /\ tasks' = [tasks EXCEPT ![t].status = "running",
                              ![t].pc = IF tasks[tasks[t].awaits].status = "rejected"
                                        THEN Handler(tasks[t].fn) ELSE @]
    /\ stack' = <<ActionFrame(t)>>
    /\ UNCHANGED <<busVars, storeVars, ret, budget, ghostBus, ghostStore, lastCall,
                   actions, getters, heap, actionEvents, reads, latest>>
    /\ UNCHANGED moduleVars

\* a method called directly returns: its promise is fulfilled with the result
CallReturns ==
    /\ AtAction
    /\ IsCall(Top.task)
    /\ Statement.op = "return"
    /\ tasks' = [tasks EXCEPT ![Top.task].status = "fulfilled",
                              ![Top.task].result = Value(Statement.arg, ThisTask)]
    /\ stack' = Below
    /\ ret' = "returned"
    /\ UNCHANGED <<busVars, storeVars, budget, ghostBus, ghostStore, lastCall,
                   actions, getters, heap, actionEvents, reads, latest>>
    /\ UNCHANGED moduleVars

\* the listener of AuthModule on user:logout is called: it calls
\* this.logout()
ListenerCalls ==
    /\ AtListener
    /\ CallbackBody(lst[Current].callback, Top.data) = "logout"
    /\ Depth < MaxDepth
    /\ lifetime' = Called(lifetime, Current)
    /\ rounds' = Ran(rounds, Top, Current)
    /\ tasks' = Append(tasks, MethodTask("authModule.logout", None, "listener"))
    /\ stack' = Append(Append(Below, [Top EXCEPT !.pc = "incb"]),
                       ActionFrame(Len(tasks) + 1))
    /\ UNCHANGED <<busVars, storeVars, ret, budget, ghostStore, lastCall, actions,
                   getters, heap, actionEvents, reads, latest>>
    /\ UNCHANGED moduleVars

\* DataModule.saveData() builds its data: the four getters are read
SaveData ==
    [users |-> GetterBody(getters["users"], state, getters),
     processes |-> GetterBody(getters["processes"], state, getters),
     products |-> GetterBody(getters["products"], state, getters),
     orders |-> GetterBody(getters["orders"], state, getters)]

\* the store:mutation listener of DataModule is called with a name it
\* saves for: saveData() runs to its end (it awaits nothing), and
\* appStorage.setAppData(data) writes the four arrays
ListenerSaves ==
    /\ AtListener
    /\ CallbackBody(lst[Current].callback, Top.data) = "save"
    /\ \E now \in Timestamps :
          LET saved == SetAppData([self |-> appStorage, localStorage |-> localStorage],
                                  SaveData, now)
          IN /\ appStorage' = saved.self
             /\ localStorage' = saved.localStorage
    /\ heap' = GetterHeap(getters["processes"], state)
    /\ lifetime' = Called(lifetime, Current)
    /\ rounds' = Ran(rounds, Top, Current)
    /\ stack' = Append(Below, Advance)
    /\ UNCHANGED <<busVars, storeVars, ret, budget, ghostStore, lastCall, dispatchVars>>
    /\ UNCHANGED <<userStorage, authModule, storageLog, router, window>>

\* the same call when the call stack is full: the call raises a
\* RangeError, into the catch block of emit
ListenerOverflows ==
    /\ AtListener
    /\ CallbackBody(lst[Current].callback, Top.data) = "logout"
    /\ Depth >= MaxDepth
    /\ lifetime' = Called(lifetime, Current)
    /\ rounds' = [Ran(rounds, Top, Current) EXCEPT ![Top.round].raised = @ \cup {Current}]
    /\ stack' = Append(Below, Advance)
    /\ UNCHANGED <<busVars, storeVars, ret, budget, ghostStore, lastCall>>
    /\ UNCHANGED <<dispatchVars, heap>>
    /\ UNCHANGED moduleVars

\* ------------------------------------------------------------------ Init
Init ==
    /\ events = <<>>
    /\ lst = <<>>
    /\ state = InitialState
    /\ mutations = <<>>
    /\ subscribers = <<>>
    /\ isCommitting = FALSE
    /\ history = <<>>
    /\ maxHistorySize = DefaultMaxHistorySize
    /\ stack = <<>>
    /\ ret = "none"
    /\ budget = [on |-> 0, emit |-> 0, commit |-> 0, subscribe |-> 0, dispatch |-> 0,
                 read |-> 0, call |-> 0]
    /\ lifetime = <<>>
    /\ rounds = <<>>
    /\ commits = <<>>
    /\ published = <<>>
    /\ lastCall = [op |-> "none", since |-> 0]
    /\ actions = <<>>
    /\ getters = <<>>
    /\ heap = <<>>
    /\ tasks = <<>>
    /\ actionEvents = <<>>
    /\ reads = <<>>
    /\ latest = [mutation |-> <<>>, action |-> <<>>, getter |-> <<>>]
    /\ localStorage = <<>>
    /\ userStorage = NoObject
    /\ authModule = NoObject
    /\ storageLog = <<>>
    /\ appStorage = NoObject
    /\ router = NoObject
    /\ window = [hash |-> "", hashchange |-> 0, length |-> 1, view |-> "", title |-> ""]

\* the top-level commit, dispatch and getGetter calls made so far
Calls == budget.commit + budget.dispatch + budget.read

\* ------------------------------------------------- the bus on its own
BusOn ==
    \E callback \in Callbacks, options \in Options :
        /\ budget.on < MaxListeners
        /\ On(UserTopic, callback, options)
BusOff == \E callback \in Callbacks : Off(UserTopic, callback)
BusEmit == \E data \in Data : Emit(UserTopic, data)

NextBus ==
    \/ BusOn
    \/ BusOff
    \/ BusEmit
    \/ ListenerReturns
    \/ ListenerThrows
    \/ ListenerEmits
    \/ ListenerResumes
    \/ EmitReturns

SpecBus == Init /\ [][NextBus]_vars

\* ----------------------------------------- the store with its observers
StoreRegister == \E r \in Registrations : RegisterMutation(r[1], r[2])
StoreSubscribe ==
    \E callback \in SubscriberCallbacks :
        /\ callback \notin Range(subscribers)
        /\ Subscribe(callback)
StoreOn ==
    \E callback \in {"ok", "throw"} :
        /\ budget.on < MaxObservers
        /\ On(MutationTopic, callback, [once |-> FALSE, context |-> Null])
StoreCommit ==
    \E mutationName \in MutationNames, payload \in Data, timestamp \in Timestamps :
        /\ budget.commit < MaxCommits
        /\ Commit(mutationName, payload, timestamp)

NextStore ==
    \/ StoreRegister
    \/ StoreSubscribe
    \/ StoreOn
    \/ StoreCommit
    \/ SubscriberReturns
    \/ SubscriberThrows
    \/ SubscriberCommits
    \/ SubscriberResumes
    \/ CommitEmits
    \/ CommitReturns
    \/ ListenerReturns
    \/ ListenerThrows
    \/ EmitReturns

SpecStore == Init /\ [][NextStore]_vars

\* ------------------------------------------------- the history on its own
HistoryCommit ==
    \E mutationName \in MutationNames, payload \in Data, timestamp \in Timestamps :
        /\ budget.commit < MaxAppends
        /\ Commit(mutationName, payload, timestamp)
HistoryResize == \E size \in 0..MaxSize : SetMaxHistorySize(size)

NextHistory ==
    \/ StoreRegister
    \/ HistoryCommit
    \/ HistoryResize
    \/ ClearHistory
    \/ CommitEmits
    \/ CommitReturns

SpecHistory == Init /\ [][NextHistory]_vars

\* ------------------------------------- the bus and its unsubscribe functions
UnsubscribeOn ==
    \E callback \in {"ok", "throw"}, options \in Options :
        /\ budget.on < MaxListeners
        /\ On(UserTopic, callback, options)
UnsubscribeCall == \E id \in 1..Len(lst) : Unsubscribe(id)

NextUnsubscribe ==
    \/ UnsubscribeOn
    \/ UnsubscribeCall
    \/ BusEmit
    \/ ListenerReturns
    \/ ListenerThrows
    \/ EmitReturns

SpecUnsubscribe == Init /\ [][NextUnsubscribe]_vars

\* ------------------------------------------ the store and the data module
DataCommit ==
    \E mutationName \in DataMutationNames, payload \in Data, timestamp \in Timestamps :
        /\ Calls < MaxCalls
        /\ Commit(mutationName, payload, timestamp)
DataRead ==
    \E getterName \in DataGetterNames :
        /\ Calls < MaxCalls
        /\ GetGetter(getterName)

NextData ==
    \/ SetupStore
    \/ DataCommit
    \/ DataRead
    \/ CommitEmits
    \/ CommitReturns

SpecData == Init /\ [][NextData]_vars

\* ------------------------------------------- the store and its actions
DispatchRegister == \E r \in ActionRegistrations : RegisterAction(r[1], r[2])
DispatchRegisterMutation == RegisterMutation("SET_COUNT", "setCount")
DispatchOn ==
    /\ budget.on < MaxObservers
    /\ On(ActionTopic, "throw", [once |-> FALSE, context |-> Null])
DispatchCall ==
    \E actionName \in ActionNames, payload \in ActionData :
        /\ budget.dispatch < MaxDispatches
        /\ Dispatch(actionName, payload)
DispatchContinue == \E t \in 1..Len(tasks) : ActionContinues(t)
DispatchPublish == \E t \in 1..Len(tasks) : DispatchPublishes(t)
DispatchReject == \E t \in 1..Len(tasks) : DispatchRejects(t)

NextDispatch ==
    \/ DispatchRegisterMutation
    \/ DispatchRegister
    \/ DispatchOn
    \/ DispatchCall
    \/ ActionCommits
    \/ ActionResumes
    \/ ActionSuspends
    \/ DispatchContinue
    \/ ActionReturns
    \/ ActionThrows
    \/ DispatchPublish
    \/ DispatchReturns
    \/ DispatchReject
    \/ CommitEmits
    \/ CommitReturns
    \/ ListenerThrows
    \/ EmitReturns

SpecDispatch == Init /\ [][NextDispatch]_vars

\* ------------------------------------------- the store and its getters
\* The setup registers the getter that composes, the getter it composes
\* and then the action that reads.
GettersRegister ==
    \E r \in GetterRegistrations :
        /\ r[1] = "count" => "double" \in DOMAIN getters
        /\ RegisterGetter(r[1], r[2])
GettersRegisterAction ==
    /\ "count" \in DOMAIN getters
    /\ RegisterAction("readDouble", "readDouble")
GettersCommit ==
    \E payload \in ActionData, timestamp \in Timestamps :
        /\ Calls < MaxCalls
        /\ Commit("SET_COUNT", payload, timestamp)
GettersRead ==
    \E getterName \in GetterNames :
        /\ Calls < MaxCalls
        /\ GetGetter(getterName)
GettersDispatch ==
    \E payload \in ActionData :
        /\ Calls < MaxCalls
        /\ Dispatch("readDouble", payload)

NextGetters ==
    \/ DispatchRegisterMutation
    \/ GettersRegister
    \/ GettersRegisterAction
    \/ GettersCommit
    \/ GettersRead
    \/ GettersDispatch
    \/ ActionSuspends
    \/ DispatchContinue
    \/ ActionReads
    \/ ActionReturns
    \/ DispatchPublish
    \/ CommitEmits
    \/ CommitReturns

SpecGetters == Init /\ [][NextGetters]_vars

\* ---------------------------------------- the registries of the store
\* One name per registry, registered with one function and then with
\* another one, by a setup that registers the mutation, the action and the
\* getter in this order, and then does it again.
Successor(registry, name, first, second) ==
    IF name \in DOMAIN registry THEN second ELSE first
RegistryMutation ==
    /\ "SET_COUNT" \notin DOMAIN mutations \/ "count" \in DOMAIN getters
    /\ RegisterMutation("SET_COUNT",
                        Successor(mutations, "SET_COUNT", "setBothFailing", "setCount"))
RegistryAction ==
    /\ "SET_COUNT" \in DOMAIN mutations
    /\ "run" \notin DOMAIN actions \/ mutations["SET_COUNT"] = "setCount"
    /\ RegisterAction("run", Successor(actions, "run", "commitThenThrow", "incrementTwice"))
RegistryGetter ==
    /\ "run" \in DOMAIN actions
    /\ "count" \notin DOMAIN getters \/ actions["run"] = "incrementTwice"
    /\ RegisterGetter("count", Successor(getters, "count", "negCount", "count"))
RegistryCommit ==
    \E payload \in ActionData, timestamp \in Timestamps :
        /\ Calls < MaxCalls
        /\ Commit("SET_COUNT", payload, timestamp)
RegistryDispatch ==
    \E payload \in ActionData :
        /\ Calls < MaxCalls
        /\ Dispatch("run", payload)
RegistryRead ==
    /\ Calls < MaxCalls
    /\ GetGetter("count")

NextRegistry ==
    \/ RegistryMutation
    \/ RegistryAction
    \/ RegistryGetter
    \/ RegistryCommit
    \/ RegistryDispatch
    \/ RegistryRead
    \/ ActionCommits
    \/ ActionResumes
    \/ ActionReturns
    \/ ActionThrows
    \/ DispatchPublish
    \/ DispatchReject
    \/ CommitEmits
    \/ CommitReturns

SpecRegistry == Init /\ [][NextRegistry]_vars

\* --------------------------------------- the store and its subscribers
SubscribersUnsubscribe ==
    \E callback \in SubscriberCallbacks :
        /\ callback \in Range(subscribers)
        /\ UnsubscribeStore(callback)

NextSubscribers ==
    \/ DispatchRegisterMutation
    \/ StoreSubscribe
    \/ SubscribersUnsubscribe
    \/ StoreCommit
    \/ SubscriberReturns
    \/ SubscriberThrows
    \/ SubscriberCommits
    \/ SubscriberResumes
    \/ CommitEmits
    \/ CommitReturns

SpecSubscribers == Init /\ [][NextSubscribers]_vars

\* ------------------------------------------------- the storage on its own
StorageLegacy ==
    \/ \E user \in SavedUsers : LegacyWrite("user", user, NoVersion)
    \/ \E version \in MigrationVersions : LegacyWrite("_version", version, version)
StorageNew == NewUserStorage
StorageAddMigration ==
    \E version \in MigrationVersions, migrationFn \in MigrationFns :
        AddMigration(version, migrationFn)
StorageRunMigrations == Len(storageLog) < MaxRuns /\ RunMigrations
StorageSetKey == \E user \in SavedUsers : UserStorageSet("user", user)
StorageRemoveKey == UserStorageRemove("_version")

NextStorage ==
    \/ StorageLegacy
    \/ StorageNew
    \/ StorageAddMigration
    \/ StorageRunMigrations
    \/ StorageSetKey
    \/ StorageRemoveKey

SpecStorage == Init /\ [][NextStorage]_vars

\* ------------------------------------------- the modules of the application
\* the modules are loaded, in the order App.js imports them
Loaded == "createUser" \in DOMAIN actions /\ EVENTS.USER_LOGIN \in DOMAIN events

\* the top-level calls of module methods and of dispatch() made so far
ModuleCalls == budget.call + budget.dispatch

ModulesData == authModule # NoObject /\ NewDataModule
ModulesLogin ==
    /\ Loaded
    /\ ModuleCalls < MaxModuleCalls
    /\ \E credentials \in Credentials : Call("authModule.login", credentials)
ModulesLogout ==
    /\ Loaded
    /\ ModuleCalls < MaxModuleCalls
    /\ Call("authModule.logout", None)
ModulesRegister ==
    /\ Loaded
    /\ ModuleCalls < MaxModuleCalls
    /\ \E userData \in UserData : Call("authModule.registerUser", userData)
ModulesCreate ==
    /\ Loaded
    /\ ModuleCalls < MaxModuleCalls
    /\ \E userData \in UserData : Dispatch("createUser", userData)
ModulesReturns == AtAction /\ ~IsCall(Top.task) /\ ActionReturns
ModulesContinue == \E t \in 1..Len(tasks) : ActionContinues(t)
ModulesAwaited == \E t \in 1..Len(tasks) : ActionAwaited(t)
ModulesPublish == \E t \in 1..Len(tasks) : DispatchPublishes(t)

NextModules ==
    \/ NewUserStorage
    \/ NewAppStorage
    \/ NewAuthModule
    \/ ModulesData
    \/ NewApp
    \/ NewUserModule
    \/ ModulesLogin
    \/ ModulesLogout
    \/ ModulesRegister
    \/ ModulesCreate
    \/ ActionLets
    \/ ActionBranches
    \/ ActionSetsThis
    \/ ActionStores
    \/ ActionLoads
    \/ ActionEmits
    \/ ActionEmitted
    \/ ActionDispatches
    \/ ActionCommits
    \/ ActionResumes
    \/ ActionSuspends
    \/ CallReturns
    \/ ModulesReturns
    \/ ModulesContinue
    \/ ModulesAwaited
    \/ ModulesPublish
    \/ ListenerReturns
    \/ ListenerSaves
    \/ ListenerCalls
    \/ ListenerOverflows
    \/ ListenerResumes
    \/ EmitReturns
    \/ CommitEmits
    \/ CommitReturns

SpecModules == Init /\ [][NextModules]_vars

\* ------------------------------------------------- properties of the bus
\* the listener id is inside its own call (it made a nested call)
InCall(id) ==
    \E k \in 1..Len(stack) :
        /\ stack[k].kind = "emit"
        /\ stack[k].pc = "incb"
        /\ Listeners(stack[k])[stack[k].i] = id

\* the listener id is in the registry of its topic, so that
\* getListenerCount counts it
Registered(id) ==
    /\ lifetime[id].event \in DOMAIN events
    /\ id \in Range(events[lifetime[id].event])

\* the listener id was registered when round r started
RegisteredAtStart(id, r) ==
    /\ lifetime[id].event = rounds[r].event
    /\ lifetime[id].born < r
    /\ lifetime[id].removed = None \/ lifetime[id].removed >= r

\* the rounds on the topic of the listener id started after its registration
LaterRounds(id) ==
    {r \in 1..Len(rounds) : r > lifetime[id].born /\ rounds[r].event = lifetime[id].event}

\* the listener id raised in some round
Raised(id) == \E r \in 1..Len(rounds) : id \in rounds[r].raised

\* C3: a once listener is called at most once over all publishes, nested
\* ones included, and is out of the registry (so not counted by
\* getListenerCount) as soon as its call is over.
C3_OnceAtMostOnce ==
    \A id \in 1..Len(lst) :
        lst[id].once =>
            /\ lifetime[id].calls <= 1
            /\ (lifetime[id].calls >= 1 /\ ~InCall(id)) => ~Registered(id)

\* C4: a once listener whose callback raised is out of the registry right
\* after that call and is not called a second time.
C4_OnceRemovedOnError ==
    \A id \in 1..Len(lst) :
        (lst[id].once /\ Raised(id)) =>
            /\ ~Registered(id)
            /\ lifetime[id].calls = 1

\* C5: a listener registered while a publish on its topic is in progress
\* is not called in a round that was in progress then, and is called in
\* the next round on its topic (unless unsubscribed before it starts).
C5_SnapshotRound ==
    \A id \in 1..Len(lst) :
        lifetime[id].during # {} =>
            /\ \A r \in lifetime[id].during : id \notin Range(rounds[r].ran)
            /\ \A r \in LaterRounds(id) :
                   (/\ r = Min(LaterRounds(id))
                    /\ rounds[r].status = "returned"
                    /\ RegisteredAtStart(id, r)) => id \in Range(rounds[r].ran)

C5_Witness ==
    \E id \in 1..Len(lst) :
        /\ lifetime[id].during # {}
        /\ \A r \in lifetime[id].during : rounds[r].status = "returned"
        /\ LaterRounds(id) # {}
        /\ rounds[Min(LaterRounds(id))].status = "returned"
        /\ id \in Range(rounds[Min(LaterRounds(id))].ran)

\* C6: when a listener raises, the listeners of the round registered after
\* it are still called, and the emit call returns normally.
C6_ListenerErrorIsolated ==
    \A r \in 1..Len(rounds) :
        /\ rounds[r].status # "threw"
        /\ rounds[r].status = "returned" =>
              \A id \in rounds[r].raised : \A other \in 1..Len(lst) :
                  (other > id /\ RegisteredAtStart(other, r)) =>
                      other \in Range(rounds[r].ran)
        /\ (Idle /\ rounds[r].raised # {}) => ret # "threw"

C6_Witness ==
    \E r \in 1..Len(rounds) : \E id \in rounds[r].raised : \E other \in 1..Len(lst) :
        /\ rounds[r].status = "returned"
        /\ other > id
        /\ RegisteredAtStart(other, r)
        /\ other \in Range(rounds[r].ran)
        /\ Idle
        /\ ret = "returned"

\* ----------------------------------------------- properties of the store
\* the entries of the last n applied commits, oldest first
LastEntries(n) == [i \in 1..n |-> commits[Len(commits) - n + i].entry]

\* the commits applied since the history was last cleared or resized
SinceReset == Len(commits) - lastCall.since

\* position of a subscriber in a sequence of subscribers
Position(subs, callback) == Min({i \in 1..Len(subs) : subs[i] = callback})

\* the last top-level call was a commit of this kind
LastCommitUnknown == lastCall.op = "commit" /\ lastCall.fn = "undefined"
LastCommitRaised == lastCall.op = "commit" /\ lastCall.fn = "setBothFailing"
LastCommitPartial == LastCommitRaised /\ lastCall.payload # lastCall.state.count

\* nothing was recorded, notified or published since the last top-level call
NothingObserved ==
    /\ history = lastCall.history
    /\ commits = lastCall.commits
    /\ published = lastCall.published
    /\ rounds = lastCall.rounds

\* there is somebody to notify
Observed == subscribers # <<>> /\ MutationTopic \in DOMAIN events

\* C1: the history is never longer than the configured capacity, for any
\* capacity that is a non-negative integer.
C1_HistoryBounded == Len(history) <= maxHistorySize

\* C2: once more commits than the capacity c were applied (since the
\* capacity was set and the history last cleared), getHistory() is the c
\* most recent entries, oldest first.
C2_HistoryIsLastEntries ==
    SinceReset > maxHistorySize => GetHistory = LastEntries(maxHistorySize)

\* C7: when a subscriber raises, the subscribers after it are still
\* notified, the store:mutation event is published, the entry stays in the
\* history and commit returns normally.
C7_SubscriberErrorIsolated ==
    \A cid \in 1..Len(commits) :
        LET c == commits[cid]
        IN (c.raised # {} /\ c.status # "running") =>
              /\ c.status = "returned"
              /\ \A s \in c.raised : \A j \in 1..Len(c.subs) :
                     j > Position(c.subs, s) => c.subs[j] \in Range(c.notified)
              /\ cid \in Range(published)
              /\ Len(history) >= cid
              /\ history[cid] = c.entry

C7_Witness ==
    \E cid \in 1..Len(commits) : \E s \in commits[cid].raised :
        /\ commits[cid].status = "returned"
        /\ Position(commits[cid].subs, s) < Len(commits[cid].subs)
        /\ commits[cid].subs[Len(commits[cid].subs)] \in Range(commits[cid].notified)
        /\ cid \in Range(published)
        /\ MutationTopic \in DOMAIN events
        /\ Idle

\* C8: commit of an unregistered name raises and changes neither the state
\* nor the history, notifies nobody and publishes nothing.
C8_UnknownMutation ==
    LastCommitUnknown =>
        /\ Idle
        /\ ret = "threw"
        /\ state = lastCall.state
        /\ NothingObserved

C8_Witness == LastCommitUnknown /\ Observed /\ lastCall.history # <<>>

\* C9: when the mutation function raises, commit raises, no entry is added
\* to the history, nobody is notified and nothing is published.
C9_MutationError ==
    LastCommitRaised =>
        /\ Idle
        /\ ret = "threw"
        /\ ~isCommitting
        /\ NothingObserved

C9_Witness == LastCommitRaised /\ Observed /\ lastCall.history # <<>>

\* C10 as claimed: after a commit whose mutation function changed part of
\* the state and then raised, the state is what it was before the call.
C10_StateRestored == LastCommitPartial => state = lastCall.state

\* C10 as amended: the part of the state the mutation function wrote before
\* it raised stays written (there is no rollback); the rest is unchanged.
C10_PartialStateKept ==
    LastCommitPartial =>
        /\ state.count = lastCall.payload
        /\ state.flag = lastCall.state.flag
        /\ ret = "threw"

C10_Witness == LastCommitPartial /\ state # lastCall.state /\ Idle

\* --------------------------------------------- properties of dispatch
\* the commit cid is in the history, at its place (the history of this
\* specification never reaches its capacity)
Recorded(cid) == cid <= Len(history) /\ history[cid] = commits[cid].entry

\* the dispatch call t is over / its action ran to its end
Settled(t) == tasks[t].status \in {"fulfilled", "rejected"}
RanToEnd(t) == tasks[t].status \in {"returned", "publishing", "fulfilled"}

\* the store:action events published for the dispatch call t
EventsOf(t) == {i \in 1..Len(actionEvents) : actionEvents[i].task = t}

\* C11: the two commits an action makes with no await between them are
\* the next two entries of the history, in call order, and the second
\* mutation runs on the state the first one produced.
C11_CommitsInCallOrder ==
    \A t \in 1..Len(tasks) :
        (tasks[t].fn = "incrementTwice" /\ RanToEnd(t)) =>
            /\ tasks[t].cids = <<tasks[t].before.commits + 1, tasks[t].before.commits + 2>>
            /\ LET first == commits[tasks[t].cids[1]].entry
                   second == commits[tasks[t].cids[2]].entry
               IN /\ Recorded(tasks[t].cids[1])
                  /\ Recorded(tasks[t].cids[2])
                  /\ first.prevState = tasks[t].before.state
                  /\ first.payload = first.prevState.count + 1
                  /\ second.prevState = first.newState
                  /\ second.payload = first.newState.count + 1
                  /\ second.newState.count = tasks[t].before.state.count + 2

\* an action made its two commits after earlier commits of other actions
C11_Witness ==
    \E t \in 1..Len(tasks) :
        /\ tasks[t].fn = "incrementTwice"
        /\ tasks[t].status = "fulfilled"
        /\ tasks[t].before.commits > 0
        /\ Len(history) = tasks[t].before.commits + 2

\* C12: whatever the interleaving of the actions, every commit is one
\* step: its entry holds the state just before its mutation and the state
\* that mutation made of it, the entry is in the history as soon as the
\* state has changed, and nothing ran between two commits' states.
C12_CommitAtomic ==
    /\ Len(history) = Len(commits)
    /\ \A cid \in 1..Len(commits) :
        LET e == commits[cid].entry
        IN /\ Recorded(cid)
           /\ e.newState = [e.prevState EXCEPT !.count = e.payload]
           /\ e.prevState = IF cid = 1 THEN InitialState
                            ELSE commits[cid - 1].entry.newState
           /\ cid = Len(commits) => state = e.newState

\* two actions were suspended at the same time and both committed afterwards
C12_Witness ==
    \E t, u \in 1..Len(tasks) :
        /\ t < u
        /\ tasks[t].fn = "readAwaitWrite" /\ tasks[u].fn = "readAwaitWrite"
        /\ tasks[t].cids # <<>> /\ tasks[u].cids # <<>>
        /\ tasks[u].before.commits < tasks[t].cids[1]

\* C13: dispatch of a name that is not registered is rejected, runs no
\* action function, publishes no store:action event and leaves the state
\* and the history as they are.
C13_UnknownAction ==
    [][(Len(tasks') > Len(tasks) /\ tasks'[Len(tasks')].fn = "undefined") =>
          /\ tasks'[Len(tasks')].status = "rejected"
          /\ stack' = stack
          /\ actionEvents' = actionEvents
          /\ state' = state
          /\ history' = history
          /\ commits' = commits]_vars

\* an unregistered name was dispatched after commits were made
C13_Witness ==
    \E t \in 1..Len(tasks) :
        /\ tasks[t].fn = "undefined"
        /\ tasks[t].status = "rejected"
        /\ tasks[t].before.history # <<>>

\* C14 as stated: every dispatch of a registered action that is over has
\* published exactly one store:action event.
C14_OneEventPerDispatch ==
    \A t \in 1..Len(tasks) :
        (tasks[t].fn # "undefined" /\ Settled(t)) => Cardinality(EventsOf(t)) = 1

\* C14: a dispatch whose action is fulfilled publishes exactly one
\* store:action event, with its name, payload and result, after every
\* commit of the action; a dispatch whose action raised publishes none.
C14_OneEventPerFulfilledAction ==
    \A t \in 1..Len(tasks) :
        /\ Cardinality(EventsOf(t)) <= 1
        /\ tasks[t].status \in {"publishing", "fulfilled"} =>
              \E i \in EventsOf(t) :
                  /\ actionEvents[i].name = tasks[t].name
                  /\ actionEvents[i].payload = tasks[t].payload
                  /\ actionEvents[i].result = tasks[t].result
                  /\ \A k \in 1..Len(tasks[t].cids) :
                        tasks[t].cids[k] <= actionEvents[i].commits
        /\ tasks[t].status \notin {"publishing", "fulfilled"} => EventsOf(t) = {}

\* an action that committed was fulfilled and its event went to a listener,
\* and an action that raised was rejected
C14_Witness ==
    /\ \E t \in 1..Len(tasks) :
          /\ tasks[t].status = "fulfilled"
          /\ tasks[t].cids # <<>>
          /\ ActionTopic \in DOMAIN events
    /\ \E t \in 1..Len(tasks) :
          tasks[t].fn = "commitThenThrow" /\ tasks[t].status = "rejected"

\* C15: the error of an action rejects the dispatch call, and the commit
\* the action made before it raised stays in the state and in the
\* history, once.
C15_ActionErrorPropagates ==
    \A t \in 1..Len(tasks) :
        /\ tasks[t].status = "fulfilled" =>
              Program(tasks[t].fn)[tasks[t].pc].op = "return"
        /\ (tasks[t].fn = "commitThenThrow" /\ tasks[t].cids # <<>>) =>
              /\ tasks[t].status \in {"running", "threw", "rejected"}
              /\ Len(tasks[t].cids) = 1
              /\ Recorded(tasks[t].cids[1])
              /\ commits[tasks[t].cids[1]].entry.payload = tasks[t].payload
              /\ commits[tasks[t].cids[1]].entry.newState.count = tasks[t].payload
              /\ tasks[t].cids[1] = Len(commits) => state.count = tasks[t].payload

\* an action committed and raised, and the dispatch call was rejected
C15_Witness ==
    \E t \in 1..Len(tasks) :
        /\ tasks[t].fn = "commitThenThrow"
        /\ tasks[t].status = "rejected"
        /\ tasks[t].cids # <<>>
        /\ state.count = tasks[t].payload
        /\ tasks[t].before.state.count # tasks[t].payload

\* ---------------------------------------------- properties of getters
\* what the getter of the read r derives from the state the read was made in
Derived(r) ==
    CASE r.name = "count" -> r.state.count
      [] r.name = "double" -> IF "count" \in r.names THEN 2 * r.state.count ELSE None

\* C16: every read of a getter, through getGetter, through the getter
\* that composes it or through context.getters of an action, gives what
\* the getter derives from the state at the time of the read; getGetter
\* of a name that is not registered raises.
C16_GettersFresh ==
    \A i \in 1..Len(reads) :
        /\ reads[i].threw <=> (reads[i].via = "getGetter" /\ reads[i].name \notin reads[i].names)
        /\ ~reads[i].threw /\ reads[i].name \in reads[i].names =>
              reads[i].value = Derived(reads[i])

\* an action read the composed getter after a commit was made while it
\* was suspended, and getGetter raised on a name that is not registered or
\* read a getter after the commit
C16_Witness ==
    /\ \E i \in 1..Len(reads), t \in 1..Len(tasks) :
          /\ reads[i].via = "context"
          /\ "count" \in reads[i].names
          /\ tasks[t].local = reads[i].value
          /\ tasks[t].before.state.count # reads[i].state.count
    /\ \E i \in 1..Len(reads) :
          reads[i].via = "getGetter" /\ (reads[i].threw \/ reads[i].value > 0)

\* ------------------------------------------- properties of registries
\* the registry holds, under every name, the function registered last
Holds(registry, registered) ==
    \A name \in DOMAIN registered :
        name \in DOMAIN registry /\ registry[name] = registered[name].fn

\* C17: registering under a name that is there replaces the function:
\* the name stays registered, and a later commit, dispatch or getGetter
\* of the name runs the function registered last, and only it.
C17_LatestHandlerRuns ==
    /\ Holds(mutations, latest.mutation)
    /\ Holds(actions, latest.action)
    /\ Holds(getters, latest.getter)
    /\ lastCall.op = "commit" =>
          /\ lastCall.fn = lastCall.latest.fn
          /\ lastCall.fn = "setCount" =>
                /\ Len(commits) > Len(lastCall.commits)
                /\ commits[Len(lastCall.commits) + 1].entry.name = lastCall.name
                /\ commits[Len(lastCall.commits) + 1].entry.newState.count = lastCall.payload
    /\ \A t \in 1..Len(tasks) :
          /\ tasks[t].fn = tasks[t].before.latest.fn
          /\ tasks[t].fn = "commitThenThrow" => ~RanToEnd(t) /\ Len(tasks[t].cids) <= 1
          /\ tasks[t].fn = "incrementTwice" /\ Settled(t) => Len(tasks[t].cids) \in {0, 2}
    /\ \A i \in 1..Len(reads) :
          reads[i].latest.fn # "undefined" =>
              /\ ~reads[i].threw
              /\ reads[i].value = IF reads[i].latest.fn = "negCount"
                                  THEN 0 - reads[i].state.count
                                  ELSE reads[i].state.count

\* a mutation, an action and a getter were each replaced by another
\* function and then run by commit, dispatch and getGetter
C17_Witness ==
    /\ lastCall.op = "commit"
    /\ lastCall.latest.replaced
    /\ lastCall.fn = "setCount"
    /\ \E t \in 1..Len(tasks) : tasks[t].before.latest.replaced /\ Settled(t)
    /\ \E i \in 1..Len(reads) : reads[i].latest.replaced /\ reads[i].state.count # 0

\* ------------------------------------ properties of unsubscribe functions
\* C18: the function on() returned for a listener removes that listener
\* from its topic, if it is still there, and no other listener.
C18_UnsubscribeRemovesOwn ==
    [][\A id \in 1..Len(lst) :
          Unsubscribe(id) => events' = EventsDelete(lifetime[id].event, id)]_vars

\* ------------------------------------------- properties of the state
\* the step runs a mutation function through commit
MutationRuns == budget'.commit > budget.commit \/ Len(commits') > Len(commits)

\* C19: the state record, with the collections in it, changes only in a
\* step that runs a mutation function through commit.
C19_StateChangesOnlyInCommit ==
    [][(state' # state \/ Shows(state', heap') # Shows(state, heap)) => MutationRuns]_vars

\* C20: the entry a commit adds to the history shows, as prevState, the
\* state as it was before the mutation and, as newState, the state as it
\* is after it, and the entries that were in the history show after the
\* commit what they showed before it.
C20_EntriesImmutable ==
    [][(budget'.commit > budget.commit /\ Len(history') > Len(history)) =>
          /\ Shows(history'[Len(history')].prevState, heap') = Shows(state, heap)
          /\ Shows(history'[Len(history')].newState, heap') = Shows(state', heap')
          /\ \A k \in 1..Len(history) :
                /\ Shows(history'[k].prevState, heap') = Shows(history[k].prevState, heap)
                /\ Shows(history'[k].newState, heap') = Shows(history[k].newState, heap)]_vars

\* ------------------------------------------ properties of the capacity
\* the last n elements of an array, oldest first
LastOf(arr, n) == SubSeq(arr, Len(arr) - n + 1, Len(arr))

\* C21: setMaxHistorySize(n) with n below the length of the history leaves
\* exactly the n most recent entries, in their order, for every n >= 0.
C21_ShrinkKeepsLastEntries ==
    [][\A size \in 0..MaxSize :
          (SetMaxHistorySize(size) /\ size < Len(history)) =>
              history' = LastOf(history, size)]_vars

\* ---------------------------------- properties of the steps of a commit
\* the commit frames of the call stack, and the emit frames of the
\* store:mutation event
CommitFrames == {k \in 1..Len(stack) : stack[k].kind = "commit"}
MutationRounds ==
    {k \in 1..Len(stack) : stack[k].kind = "emit" /\ stack[k].event = MutationTopic}

\* every subscriber the commit cid found was told of it
AllNotified(cid) == Range(commits[cid].subs) \subseteq Range(commits[cid].notified)

\* C26 as stated: when a direct subscriber is about to run, the entry of
\* its commit is the last entry of the history.
C26_EntryIsLastWhenNotified ==
    AtSubscriber =>
        /\ history # <<>>
        /\ history[Len(history)] = commits[Top.cid].entry

\* C26: in a commit the mutation is applied and its entry is in the
\* history before the first subscriber runs, the store:mutation event is
\* published after the last subscriber ran, and its listeners run after
\* that; the entry is the last one of the history while the subscribers
\* run unless one of them committed in the meantime.
C26_CommitStepOrder ==
    /\ \A k \in CommitFrames :
          LET f == stack[k]
              c == commits[f.cid]
          IN /\ Recorded(f.cid)
             /\ c.entry.newState = MutationBody(mutations[f.name], c.entry.prevState,
                                                f.payload).state
             /\ f.pc \in {"notify", "insub"} =>
                   /\ f.cid \notin Range(published)
                   /\ Len(c.notified) \in {f.i - 1, f.i}
                   /\ (Len(commits) = f.cid) => history[Len(history)] = c.entry
             /\ f.pc = "emit" => f.cid \in Range(published)
    /\ \A i \in 1..Len(published) : AllNotified(published[i])
    /\ \A k \in MutationRounds :
          /\ k > 1
          /\ stack[k - 1].kind = "commit"
          /\ stack[k - 1].pc = "emit"
          /\ AllNotified(stack[k - 1].cid)

\* a commit told its two subscribers, one of which committed itself, and
\* then a listener of store:mutation
C26_Witness ==
    /\ Idle
    /\ \E cid \in 1..Len(commits) :
          /\ commits[cid].status = "returned"
          /\ Len(commits[cid].notified) = 2
          /\ Len(commits) > cid
          /\ history[Len(history)] # commits[cid].entry
    /\ \E r \in 1..Len(rounds) : rounds[r].event = MutationTopic /\ rounds[r].ran # <<>>

\* ------------------------------------------- properties of a publish
\* the listeners registered on the topic of round r when it started, in
\* registration order
SnapshotOf(r) ==
    SelectSeq([id \in 1..Len(lst) |-> id], LAMBDA id : RegisteredAtStart(id, r))

\* the array a is the beginning of the array b
IsPrefix(a, b) == Len(a) <= Len(b) /\ \A i \in 1..Len(a) : a[i] = b[i]

\* the step is a top-level emit on a topic that has no listener
EmitsToNobody ==
    /\ Idle
    /\ budget'.emit > budget.emit
    /\ UserTopic \notin DOMAIN events \/ events[UserTopic] = <<>>

\* C27: a publish on a topic with no listeners calls nobody and changes
\* nothing; otherwise the round calls every listener that was registered
\* when it started, once each, in registration order, each with the
\* published payload.
C27_PublishRunsSnapshot ==
    /\ [](\A r \in 1..Len(rounds) :
             /\ rounds[r].got = [i \in 1..Len(rounds[r].ran) |-> rounds[r].data]
             /\ IsPrefix(rounds[r].ran, SnapshotOf(r))
             /\ rounds[r].status = "returned" => rounds[r].ran = SnapshotOf(r))
    /\ [][EmitsToNobody =>
             /\ UNCHANGED <<busVars, storeVars, lifetime>>
             /\ \A r \in 1..Len(rounds') : r > Len(rounds) => SnapshotOf(r)' = <<>>]_vars

\* a round called two listeners while one of them published or
\* subscribed, and a publish was made on a topic with no listener
C27_Witness ==
    /\ Idle
    /\ budget.emit = MaxEmits
    /\ \E r \in 1..Len(rounds) :
          /\ rounds[r].status = "returned"
          /\ Len(rounds[r].ran) = 2
          /\ Len(rounds) > r \/ Len(lst) > 2
    /\ \E r \in 1..Len(rounds) : rounds[r].ran = <<>>

\* ------------------------------------------ properties of subscribers
\* the step calls the subscriber callback
Notifies(callback) ==
    \E cid \in 1..Len(commits) :
        /\ Len(commits'[cid].notified) > Len(commits[cid].notified)
        /\ commits'[cid].notified[Len(commits'[cid].notified)] = callback

\* C28: a commit tells the subscribers of the store, in subscription
\* order, with the state before the mutation, the state as it is and the
\* descriptor of the mutation; the function subscribe(cb) returned takes cb
\* out and leaves the others in their order, and cb is called again only
\* after it subscribed again.
C28_SubscribersNotifiedInOrder ==
    /\ [](\A cid \in 1..Len(commits) :
             LET c == commits[cid]
             IN /\ IsPrefix(c.notified, c.subs)
                /\ c.status = "returned" => c.notified = c.subs
                /\ \A i \in 1..Len(c.told) :
                      /\ c.told[i].prevState = c.entry.prevState
                      /\ c.told[i].mutation = [type |-> "mutation", name |-> c.entry.name,
                                               payload |-> c.entry.payload]
                      /\ c.told[i].newState = c.entry.newState \/ Len(commits) > cid)
    /\ [][\A callback \in SubscriberCallbacks :
             /\ UnsubscribeStore(callback) => subscribers' = Remove(subscribers, callback)
             /\ (callback \notin Range(subscribers) /\ callback \in Range(subscribers')) =>
                   budget'.subscribe > budget.subscribe
             /\ Notifies(callback) => callback \in Range(subscribers)]_vars

\* a subscriber was told of a commit, unsubscribed, and was not told of
\* the next commit, of which the other subscriber was told
C28_Witness ==
    \E c1, c2 \in 1..Len(commits) : \E callback, other \in SubscriberCallbacks :
        /\ c1 < c2
        /\ commits[c2].status = "returned"
        /\ callback \in Range(commits[c1].notified)
        /\ callback \notin Range(commits[c2].subs)
        /\ callback \notin Range(commits[c2].notified)
        /\ other \in Range(commits[c1].notified)
        /\ other \in Range(commits[c2].notified)
        /\ commits[c1].subs[1] = callback

\* ------------------------------------- properties of concurrent actions
\* the dispatch calls t and u run readAwaitWrite, were suspended on the
\* same read of the count, and both committed afterwards
Raced(t, u) ==
    /\ t < u
    /\ tasks[t].fn = "readAwaitWrite" /\ tasks[u].fn = "readAwaitWrite"
    /\ tasks[t].cids # <<>> /\ tasks[u].cids # <<>>
    /\ tasks[t].local = tasks[u].local

\* C29: dispatches are not serialized: two actions that read the count,
\* suspend and then commit the count they read plus one commit in either
\* order, and after both commits the count is the one they read plus one:
\* the update of one of them is lost.
C29_LostUpdate ==
    \A t, u \in 1..Len(tasks) :
        Raced(t, u) =>
            LET first == Min({tasks[t].cids[1], tasks[u].cids[1]})
                second == Max({tasks[t].cids[1], tasks[u].cids[1]})
            IN /\ commits[first].entry.payload = tasks[t].local + 1
               /\ commits[second].entry.payload = tasks[t].local + 1
               /\ commits[second].entry.newState.count = tasks[t].local + 1
               /\ second = Len(commits) => state.count = tasks[t].local + 1

\* the action dispatched second committed first, both dispatches were
\* fulfilled, and the count went up by one
C29_Witness ==
    \E t, u \in 1..Len(tasks) :
        /\ Raced(t, u)
        /\ tasks[u].cids[1] < tasks[t].cids[1]
        /\ tasks[t].status = "fulfilled" /\ tasks[u].status = "fulfilled"
        /\ tasks[t].result = tasks[u].result
        /\ state.count = tasks[t].before.state.count + 1

\* the action dispatched first committed first, and the count went up by one
C29_WitnessInOrder ==
    \E t, u \in 1..Len(tasks) :
        /\ Raced(t, u)
        /\ tasks[t].cids[1] < tasks[u].cids[1]
        /\ tasks[t].status = "fulfilled" /\ tasks[u].status = "fulfilled"
        /\ state.count = tasks[t].before.state.count + 1

\* ------------------------------------------ properties of isCommitting
\* C30 as stated: isCommitting is true exactly while a commit call is
\* executing, a commit called from a subscriber or a listener included.
C30_FlagMarksCommitWindow == isCommitting <=> CommitFrames # {}

\* C30: isCommitting is false whenever no commit call is executing; while
\* commit calls are executing it is true as long as the commit that
\* started last is still running, and false once a commit called from a
\* subscriber has returned, for the rest of the commit that called it.
C30_FlagUntilInnerCommitEnds ==
    /\ CommitFrames = {} => ~isCommitting
    /\ CommitFrames # {} => (isCommitting <=> commits[Len(commits)].status = "running")

\* a subscriber committed, that commit returned, and the commit that told
\* the subscriber goes on with the flag down
C30_Witness ==
    /\ AtSubscriber
    /\ Top.i = 2
    /\ Len(commits) > Top.cid
    /\ commits[Len(commits)].status = "returned"
    /\ ~isCommitting

\* ------------------------------------------- properties of migrations
\* the migration is due when the stored version is `from`
Due(from, version) == StringLess(from, version) /\ ~StringLess(StorageVersion, version)

\* how many times the version is in the sequence
Times(versions, version) == Cardinality({i \in 1..Len(versions) : versions[i] = version})

\* C25: a migration the storage has when its constructor is done, for a
\* version above the stored version and not above the version of the
\* storage, was run once by the constructor; so UserStorage's 1.0.0
\* migration runs on a first start, over data without a stored version
C25_MigrationRunsAtInit ==
    \A i \in 1..Len(storageLog) :
        storageLog[i].during = "constructor" =>
            \A k \in 1..Len(storageLog[i].registered) :
                Due(storageLog[i].from, storageLog[i].registered[k][1]) =>
                    Times(storageLog[i].ran, storageLog[i].registered[k][1]) = 1

\* ---------------------------------------------- properties of the modules
\* nothing is running and no call is pending
Quiet == Idle /\ \A t \in 1..Len(tasks) : tasks[t].status \in {"fulfilled", "rejected"}

\* the logout() calls made from the top level, the commits of
\* CLEAR_CURRENT_USER and the rounds of user:logout
TopLogouts ==
    {t \in 1..Len(tasks) : /\ IsCall(t)
                           /\ tasks[t].name = "authModule.logout"
                           /\ tasks[t].caller = "top"}
ClearCommits ==
    {c \in 1..Len(commits) : commits[c].entry.name = "CLEAR_CURRENT_USER"}
LogoutRounds == {r \in 1..Len(rounds) : rounds[r].event = EVENTS.USER_LOGOUT}

\* C23: when every call is over, each logout() call made from the top
\* level has committed CLEAR_CURRENT_USER once and has published
\* user:logout once, and the current user is cleared when the last call
\* was a logout
C23_LogoutOnce ==
    Quiet =>
        /\ Cardinality(ClearCommits) = Cardinality(TopLogouts)
        /\ Cardinality(LogoutRounds) = Cardinality(TopLogouts)

\* the user is an administrator
IsAdministrator(user) == user # NoObject /\ user.role = USER_ROLES.ADMIN

\* a user of the store has the name
Named(users, name) == \E i \in 1..Len(users) : users[i].name = name

\* user:created was published with a user of that name after the round n
Created(name, n) ==
    \E r \in (n + 1)..Len(rounds) :
        rounds[r].event = EVENTS.USER_CREATED /\ rounds[r].data.name = name

\* C24: a registerUser call made by an administrator, with valid data
\* that duplicates no user, returns success, the user is among the users of
\* the store and user:created was published
C24_RegisterUserSucceeds ==
    \A t \in 1..Len(tasks) :
        ( /\ IsCall(t)
          /\ tasks[t].name = "authModule.registerUser"
          /\ tasks[t].status = "fulfilled"
          /\ IsAdministrator(tasks[t].before.currentUser)
          /\ Validate(tasks[t].payload)
          /\ ~Existing(tasks[t].before.users, tasks[t].payload) )
        => /\ tasks[t].result.success
           /\ Named(Users, tasks[t].payload.name)
           /\ Created(tasks[t].payload.name, tasks[t].before.rounds)

\* the users of the store after the first n commits
UsersAt(n) ==
    LET added == SelectSeq(SubSeq(commits, 1, n), LAMBDA c : c.entry.name = "ADD_USER")
    IN <<DEFAULT_ADMIN>> \o [i \in 1..Len(added) |-> added[i].entry.payload]

\* C22: a createUser dispatched while the current user of the store is an
\* administrator, with valid data that duplicates no user, succeeds and
\* the user is among the users of the store
C22_AdminCreatesUser ==
    \A t \in 1..Len(tasks) :
        ( /\ ~IsCall(t)
          /\ tasks[t].name = "createUser"
          /\ tasks[t].status = "fulfilled"
          /\ IsAdministrator(tasks[t].before.state.currentUser)
          /\ Validate(tasks[t].payload)
          /\ ~Existing(UsersAt(tasks[t].before.commits), tasks[t].payload) )
        => /\ tasks[t].result.success
           /\ Named(Users, tasks[t].payload.name)

\* ------------------------------------ properties of the order of the events
\* C32: the store:mutation events are published in the order in which the
\* history entries of their commits were appended: a commit whose entry was
\* appended earlier is published earlier
C32_EventsInHistoryOrder ==
    \A i \in 1..Len(published) : \A j \in 1..Len(published) :
        i < j => published[i] < published[j]

\* ------------------------------------------ properties of the getter reads
\* C33: a step that reads a getter leaves the state record as it was, the
\* order of the elements of its collections included
C33_ReadsLeaveState ==
    [][Len(reads') > Len(reads) => Shows(state', heap') = Shows(state, heap)]_vars

\* ------------------------------------------------------ the persisted data
MaxSaves == 2           \* top-level commit() calls once the data is persisted

\* a user who is no administrator, a product and an order, as an earlier
\* session stored them or as a module commits them
Operator ==
    [id |-> 2, name |-> "Operator", email |-> "operator@oms.local",
     phone |-> "+77777777778", password |-> "pass",
     role |-> USER_ROLES.OPERATOR, processes |-> <<1, 2>>, isActive |-> TRUE,
     createdAt |-> ToISOString(0), createdBy |-> DEFAULT_ADMIN.id]
Product == [id |-> 1, name |-> "Product", processes |-> <<1, 2>>]
Order ==
    [id |-> 1, number |-> "261102-002", clientName |-> "Client", productId |-> 1,
     quantity |-> 1, currentProcessId |-> 1, status |-> ORDER_STATUS.IN_PROGRESS,
     defectInfo |-> [isDefective |-> FALSE, reason |-> Null],
     createdBy |-> DEFAULT_ADMIN.id]

\* what an earlier session left in appStorage
StoredData ==
    {[users |-> <<DEFAULT_ADMIN, Operator>>, processes |-> <<1, 2>>,
      products |-> <<Product>>, orders |-> <<Order>>]}

\* the commits made once the modules are loaded: name and payload
PersistCommits ==
    {<<"ADD_USER", Operator>>, <<"ADD_PROCESS", 0>>,
     <<"UPDATE_ORDER", [id |-> 1, status |-> "defect"]>>, <<"REMOVE_ORDER", 1>>,
     <<"SET_PRODUCTS", <<>>>>, <<"CLEAR_CURRENT_USER", None>>}

\* an earlier session: its appStorage saved its data
PersistEarlier ==
    /\ Idle
    /\ userStorage = NoObject
    /\ localStorage = <<>>
    /\ \E data \in StoredData : \E now \in Timestamps :
          localStorage' = SetAppData(NewStorage(AppPrefix, now).storage, data,
                                     now).localStorage
    /\ UNCHANGED <<coreVars, userStorage, authModule, storageLog, appVars>>

PersistCommit ==
    /\ "users" \in DOMAIN state
    /\ budget.commit < MaxSaves
    /\ \E c \in PersistCommits : \E timestamp \in Timestamps :
          Commit(c[1], c[2], timestamp)
PersistSubscribe == subscribers = <<>> /\ Subscribe("throw")
PersistOn ==
    /\ budget.on < MaxObservers
    /\ On(MutationTopic, "throw", [once |-> FALSE, context |-> Null])

NextPersist ==
    \/ PersistEarlier
    \/ NewUserStorage
    \/ NewAppStorage
    \/ NewAuthModule
    \/ ModulesData
    \/ PersistSubscribe
    \/ PersistOn
    \/ PersistCommit
    \/ ActionLoads
    \/ ActionBranches
    \/ ActionEmits
    \/ ActionCommits
    \/ ActionResumes
    \/ CallReturns
    \/ SubscriberThrows
    \/ CommitEmits
    \/ ListenerReturns
    \/ ListenerThrows
    \/ ListenerSaves
    \/ EmitReturns
    \/ CommitReturns

SpecPersist == Init /\ [][NextPersist]_vars

\* the arrays kept in localStorage under the keys of appStorage
Kept(storage, key) ==
    IF GetKey(AppPrefix, key) \in DOMAIN storage
    THEN JSONParse(storage[GetKey(AppPrefix, key)]).value
    ELSE [missing |-> key]
Persisted(storage) ==
    [users |-> Kept(storage, STORAGE_KEYS.USERS),
     processes |-> Kept(storage, STORAGE_KEYS.PROCESSES),
     products |-> Kept(storage, STORAGE_KEYS.PRODUCTS),
     orders |-> Kept(storage, STORAGE_KEYS.ORDERS)]

\* the collections of the store
Collections(s, h) ==
    [users |-> h[s.users], processes |-> h[s.processes], products |-> h[s.products],
     orders |-> h[s.orders]]

\* DataModule listens to store:mutation
Persisting ==
    \E id \in 1..Len(lst) : lst[id].callback = "autosave" /\ lifetime[id].event = MutationTopic

\* the names the claim is about
Saving(name) ==
    \E part \in {"ADD_", "UPDATE_", "REMOVE_", "SET_"} : Includes(name, part)

\* C31: once DataModule is initialized, when a commit of a mutation whose
\* name contains ADD_, UPDATE_, REMOVE_ or SET_ returns, the users,
\* processes, products and orders kept in localStorage are the collections
\* of the store, whatever subscribers and other listeners raise.
C31_CommitsArePersisted ==
    [][\A cid \in 1..Len(commits) :
          (/\ Persisting
           /\ commits[cid].status = "running"
           /\ commits'[cid].status = "returned"
           /\ Saving(commits[cid].entry.name))
          => Persisted(localStorage') = Collections(state', heap')]_vars

\* a commit of ADD_USER returned, a subscriber and a listener of
\* store:mutation raised in it, and the two users are in localStorage
C31_Witness ==
    /\ Idle
    /\ \E cid \in 1..Len(commits) :
          /\ commits[cid].entry.name = "ADD_USER"
          /\ commits[cid].status = "returned"
          /\ commits[cid].raised # {}
    /\ \E r \in 1..Len(rounds) :
          /\ rounds[r].event = MutationTopic
          /\ rounds[r].data.name = "ADD_USER"
          /\ rounds[r].raised # {}
    /\ Persisted(localStorage) = Collections(state, heap)
    /\ Len(Persisted(localStorage).users) >= 2

\* ------------------------------------------------ the users and their rights
MaxUserCalls == 3       \* top-level calls of login, logout, updateUser, createUser

\* what login is called with here, and what updateUser is dispatched with
UserCredentials ==
    {[username |-> "Operator", password |-> "pass"],
     [username |-> "Administrator", password |-> "1488"]}
Updates ==
    {[id |-> Operator.id, data |-> [isAdmin |-> TRUE]],
     [id |-> Operator.id, data |-> [role |-> USER_ROLES.ADMIN]],
     [id |-> DEFAULT_ADMIN.id, data |-> [name |-> "Admin"]]}

UsersLogin ==
    /\ Loaded
    /\ ModuleCalls < MaxUserCalls
    /\ \E credentials \in UserCredentials : Call("authModule.login", credentials)
UsersLogout ==
    /\ Loaded
    /\ ModuleCalls < MaxUserCalls
    /\ Call("authModule.logout", None)
UsersUpdate ==
    /\ Loaded
    /\ ModuleCalls < MaxUserCalls
    /\ \E update \in Updates : Dispatch("updateUser", update)
UsersCreate ==
    /\ Loaded
    /\ ModuleCalls < MaxUserCalls
    /\ Dispatch("createUser", [name |-> "Viewer", email |-> "viewer@oms.local",
                               phone |-> "+77777777779", password |-> "pass",
                               role |-> USER_ROLES.VIEWER])

NextUsers ==
    \/ PersistEarlier
    \/ NewUserStorage
    \/ NewAppStorage
    \/ NewAuthModule
    \/ ModulesData
    \/ NewApp
    \/ NewUserModule
    \/ UsersLogin
    \/ UsersLogout
    \/ UsersUpdate
    \/ UsersCreate
    \/ ActionLets
    \/ ActionBranches
    \/ ActionSetsThis
    \/ ActionStores
    \/ ActionLoads
    \/ ActionEmits
    \/ ActionEmitted
    \/ ActionCommits
    \/ ActionResumes
    \/ ActionSuspends
    \/ CallReturns
    \/ ModulesReturns
    \/ ModulesContinue
    \/ ModulesPublish
    \/ ListenerReturns
    \/ ListenerSaves
    \/ ListenerCalls
    \/ ListenerOverflows
    \/ ListenerResumes
    \/ EmitReturns
    \/ CommitEmits
    \/ CommitReturns

SpecUsers == Init /\ [][NextUsers]_vars

\* C34: once the modules are initialized and after every login, logout and
\* updateUser of the current user, AuthModule.currentUser and the
\* currentUser of the state of the store are both null or the same data.
C34_CurrentUserAgrees ==
    (Loaded /\ Quiet) => authModule.currentUser = state.currentUser

\* the dispatches of createUser that succeeded
Succeeded(name) ==
    {t \in 1..Len(tasks) :
        /\ tasks[t].name = name
        /\ tasks[t].status = "fulfilled"
        /\ tasks[t].result.success}

\* C35: createUser never succeeds for a current user whose role is not
\* admin, whatever updateUser calls on their own profile came before.
C35_NoEscalation ==
    \A t \in Succeeded("createUser") :
        tasks[t].before.state.currentUser.role = USER_ROLES.ADMIN


\* ------------------------------------------------ the orders and the defects
MaxDefectCalls == 4     \* top-level calls of login and of the order actions

\* the modules of the orders and of the processes are constructed
OrdersLoaded == "deleteProcess" \in DOMAIN actions

\* what createOrder is dispatched with, the ids an order action is called
\* with (the ones present and one that is not), and where moveOrder moves to
OrdersData ==
    {[clientName |-> "Client", clientPhone |-> "", productId |-> 1, quantity |-> 0],
     [clientName |-> "", clientPhone |-> "", productId |-> 1, quantity |-> 0]}
OrderIds == {heap[state.orders][i].id : i \in 1..Len(heap[state.orders])} \cup {0}
Targets == {0, 1}

\* every call made so far has settled: the caller awaits each call
Awaited == \A t \in 1..Len(tasks) : Settled(t)

DefectsLogin ==
    /\ OrdersLoaded
    /\ Awaited
    /\ ModuleCalls < MaxDefectCalls
    /\ Call("authModule.login", [username |-> DEFAULT_ADMIN.name,
                                  password |-> DEFAULT_ADMIN.password])
DefectsCreate ==
    /\ OrdersLoaded
    /\ Awaited
    /\ ModuleCalls < MaxDefectCalls
    /\ \E orderData \in OrdersData : Dispatch("createOrder", orderData)
DefectsMove ==
    /\ OrdersLoaded
    /\ Awaited
    /\ ModuleCalls < MaxDefectCalls
    /\ \E orderId \in OrderIds, toProcessId \in Targets :
          Dispatch("moveOrder", [orderId |-> orderId, toProcessId |-> toProcessId,
                                 reason |-> ""])
DefectsSend ==
    /\ OrdersLoaded
    /\ Awaited
    /\ ModuleCalls < MaxDefectCalls
    /\ \E orderId \in OrderIds :
          Dispatch("sendOrderToDefect", [orderId |-> orderId, reason |-> "scratch"])
DefectsFix ==
    /\ OrdersLoaded
    /\ Awaited
    /\ ModuleCalls < MaxDefectCalls
    /\ \E orderId \in OrderIds :
          Dispatch("fixDefectOrder", [orderId |-> orderId, comment |-> "polished"])

NextDefects ==
    \/ NewUserStorage
    \/ NewAppStorage
    \/ NewAuthModule
    \/ ModulesData
    \/ NewOrderModule
    \/ NewProcessModule
    \/ DefectsLogin
    \/ DefectsCreate
    \/ DefectsMove
    \/ DefectsSend
    \/ DefectsFix
    \/ ActionLets
    \/ ActionBranches
    \/ ActionSetsThis
    \/ ActionStores
    \/ ActionLoads
    \/ ActionEmits
    \/ ActionEmitted
    \/ ActionCommits
    \/ ActionResumes
    \/ ActionSuspends
    \/ CallReturns
    \/ ModulesReturns
    \/ ModulesContinue
    \/ ModulesPublish
    \/ ListenerReturns
    \/ ListenerSaves
    \/ EmitReturns
    \/ CommitEmits
    \/ CommitReturns

SpecDefects == Init /\ [][NextDefects]_vars

\* C36: for every order in the store, status is 'defect' exactly when
\* defectInfo.isDefective is true, after any sequence of createOrder,
\* moveOrder, sendOrderToDefect and fixDefectOrder actions on that order.
C36_DefectStatusAgrees ==
    "orders" \in DOMAIN state =>
        \A i \in 1..Len(heap[state.orders]) :
            heap[state.orders][i].status = ORDER_STATUS.DEFECT
            <=> heap[state.orders][i].defectInfo.isDefective


\* ------------------------------------------- the orders and their processes
MaxOrderCalls == 3      \* top-level calls of login and of the actions

\* what updateOrder is dispatched with, what moveOrder and deleteProcess
\* are called with, and the update by which a user becomes isAdmin
OrderUpdates == {[currentProcessId |-> 7], [clientName |-> "Other"]}
ProcessIds == {0, 1, 2, 7}
BecomeAdmin == [id |-> Operator.id, data |-> [isAdmin |-> TRUE]]

OrdersReady == OrdersLoaded /\ "updateUser" \in DOMAIN actions /\ Awaited

OrdersLogin ==
    /\ OrdersReady
    /\ ModuleCalls < MaxOrderCalls
    /\ \E credentials \in UserCredentials : Call("authModule.login", credentials)
OrdersBecomeAdmin ==
    /\ OrdersReady
    /\ ModuleCalls < MaxOrderCalls
    /\ Dispatch("updateUser", BecomeAdmin)
OrdersCreate ==
    /\ OrdersReady
    /\ ModuleCalls < MaxOrderCalls
    /\ \E orderData \in OrdersData : Dispatch("createOrder", orderData)
OrdersUpdate ==
    /\ OrdersReady
    /\ ModuleCalls < MaxOrderCalls
    /\ \E orderId \in OrderIds, data \in OrderUpdates :
          Dispatch("updateOrder", [id |-> orderId, data |-> data])
OrdersMove ==
    /\ OrdersReady
    /\ ModuleCalls < MaxOrderCalls
    /\ \E orderId \in OrderIds, toProcessId \in ProcessIds :
          Dispatch("moveOrder", [orderId |-> orderId, toProcessId |-> toProcessId,
                                 reason |-> ""])
OrdersDelete ==
    /\ OrdersReady
    /\ ModuleCalls < MaxOrderCalls
    /\ \E orderId \in OrderIds : Dispatch("deleteOrder", orderId)
OrdersDeleteProcess ==
    /\ OrdersReady
    /\ ModuleCalls < MaxOrderCalls
    /\ \E processId \in ProcessIds \ {0} : Dispatch("deleteProcess", processId)

NextOrders ==
    \/ PersistEarlier
    \/ NewUserStorage
    \/ NewAppStorage
    \/ NewAuthModule
    \/ ModulesData
    \/ NewUserModule
    \/ NewOrderModule
    \/ NewProcessModule
    \/ OrdersLogin
    \/ OrdersBecomeAdmin
    \/ OrdersCreate
    \/ OrdersUpdate
    \/ OrdersMove
    \/ OrdersDelete
    \/ OrdersDeleteProcess
    \/ ActionLets
    \/ ActionBranches
    \/ ActionSetsThis
    \/ ActionStores
    \/ ActionLoads
    \/ ActionEmits
    \/ ActionEmitted
    \/ ActionCommits
    \/ ActionResumes
    \/ ActionSuspends
    \/ CallReturns
    \/ ModulesReturns
    \/ ModulesContinue
    \/ ModulesPublish
    \/ ListenerReturns
    \/ ListenerSaves
    \/ EmitReturns
    \/ CommitEmits
    \/ CommitReturns

SpecOrders == Init /\ [][NextOrders]_vars

\* C37: after any sequence of order and process actions, every order's
\* currentProcessId is null or the id of a process that currently exists in
\* the store.
C37_ProcessExists ==
    "orders" \in DOMAIN state =>
        \A i \in 1..Len(heap[state.orders]) :
            \/ heap[state.orders][i].currentProcessId = NullId
            \/ heap[state.orders][i].currentProcessId \in Range(heap[state.processes])


\* ------------------------------------------------- the numbers of the orders
MaxNumberCalls == 4     \* top-level calls of login, createOrder, deleteOrder

\* the ids of the orders in the store
PresentIds == {heap[state.orders][i].id : i \in 1..Len(heap[state.orders])}

\* login is awaited; createOrder and deleteOrder are dispatched without
\* awaiting the dispatches before them
NumbersLogin ==
    /\ OrdersLoaded
    /\ Awaited
    /\ ModuleCalls < MaxNumberCalls
    /\ Call("authModule.login", [username |-> DEFAULT_ADMIN.name,
                                  password |-> DEFAULT_ADMIN.password])
NumbersCreate ==
    /\ OrdersLoaded
    /\ \A t \in 1..Len(tasks) : IsCall(t) => Settled(t)
    /\ ModuleCalls < MaxNumberCalls
    /\ Dispatch("createOrder", [clientName |-> "Client", clientPhone |-> "",
                                productId |-> 1, quantity |-> 0])
NumbersDelete ==
    /\ OrdersLoaded
    /\ \A t \in 1..Len(tasks) : IsCall(t) => Settled(t)
    /\ ModuleCalls < MaxNumberCalls
    /\ \E orderId \in PresentIds : Dispatch("deleteOrder", orderId)

NextNumbers ==
    \/ PersistEarlier
    \/ NewUserStorage
    \/ NewAppStorage
    \/ NewAuthModule
    \/ ModulesData
    \/ NewOrderModule
    \/ NewProcessModule
    \/ NumbersLogin
    \/ NumbersCreate
    \/ NumbersDelete
    \/ ActionLets
    \/ ActionBranches
    \/ ActionSetsThis
    \/ ActionStores
    \/ ActionLoads
    \/ ActionEmits
    \/ ActionEmitted
    \/ ActionCommits
    \/ ActionResumes
    \/ ActionSuspends
    \/ CallReturns
    \/ ModulesReturns
    \/ ModulesContinue
    \/ ModulesPublish
    \/ ListenerReturns
    \/ ListenerSaves
    \/ EmitReturns
    \/ CommitEmits
    \/ CommitReturns

SpecNumbers == Init /\ [][NextNumbers]_vars

\* C38: no two orders created through createOrder and present in the store
\* at the same time carry the same order number, for any interleaving of
\* concurrently dispatched createOrder and deleteOrder actions on the same
\* day.
C38_NumbersDiffer ==
    "orders" \in DOMAIN state =>
        \A i, j \in 1..Len(heap[state.orders]) :
            i # j => heap[state.orders][i].number # heap[state.orders][j].number

\* two dispatches of createOrder are in progress at the same time, a
\* deleteOrder has removed an order, and the orders of both are in the store
C38_Witness ==
    /\ \E t \in Succeeded("deleteOrder") : TRUE
    /\ \E t1, t2 \in 1..Len(tasks) :
          /\ t1 < t2
          /\ tasks[t1].name = "createOrder"
          /\ tasks[t2].name = "createOrder"
          /\ ~Settled(t1)
          /\ ~Settled(t2)
          /\ {100 + t1, 100 + t2} \subseteq PresentIds


\* ------------------------------------------------------------- the routing
MaxNavigations == 3     \* entries of the history the user may navigate at

\* the paths the user navigates to
Paths == {"/login", "/", "/orders", "/orders/7", "/logout", "/nowhere"}

\* router = new Router(), and of new App(): setupRouting(), the listeners
\* of setupEventListeners() that navigate, and initUI(), which pushes
\* /login when nobody is logged in; the load event of the window is to come
NewRouter ==
    /\ Idle
    /\ router = NoObject
    /\ authModule # NoObject
    /\ "users" \in DOMAIN state
    /\ EVENTS.USER_LOGIN \notin DOMAIN events
    /\ router' = [routes |-> Routes, currentRoute |-> NoObject,
                  beforeHooks |-> <<"beforeEach">>, afterHooks |-> <<"afterEach">>]
    /\ LET bus == OnEach(Bus, <<(<<EVENTS.USER_LOGIN, "pushHome">>),
                                (<<EVENTS.USER_LOGOUT, "pushLogin">>)>>)
       IN /\ lst' = bus.lst
          /\ events' = bus.events
          /\ lifetime' = bus.lifetime
    /\ window' = LET w == IF IsAuthenticated THEN window ELSE Push(window, "/login")
                 IN [w EXCEPT !.hashchange = @ + 1]
    /\ UNCHANGED <<storeVars, stack, ret, budget, rounds, ghostStore, lastCall,
                   dispatchVars, heap>>
    /\ UNCHANGED <<localStorage, userStorage, authModule, storageLog, appStorage>>

\* somebody listens to router:change
RouterOn ==
    /\ router # NoObject
    /\ "router:change" \notin DOMAIN events
    /\ On("router:change", "ok", [once |-> FALSE, context |-> Null])

\* handleRoute() awaits what its hooks and handlers return, which are no
\* promises: it goes on in microtasks, and these have all run before the
\* window delivers the next event or a timer fires
Drained == \A t \in 1..Len(tasks) : tasks[t].fn = "handleRoute" => Settled(t)

RouterReady == router # NoObject /\ "router:change" \in DOMAIN events /\ Drained

\* a call that awaits goes on: handleRoute() at once, login() when its
\* timer fires
RouterContinues ==
    \E t \in 1..Len(tasks) :
        /\ tasks[t].fn # "handleRoute" => Drained
        /\ ActionContinues(t)

\* the user follows a link or types an address: window.location.hash = path
RouterNavigates ==
    /\ Idle
    /\ RouterReady
    /\ window.length < MaxNavigations
    /\ \E path \in Paths :
          /\ window.hash # "#" \o path
          /\ window' = Push(window, path)
    /\ UNCHANGED <<coreVars, localStorage, userStorage, authModule, storageLog,
                   appStorage, router>>

\* the user logs in from the login view, shown while nobody is logged in
RouterLogin ==
    /\ RouterReady
    /\ ~IsAuthenticated
    /\ \A t \in 1..Len(tasks) : Settled(t)
    /\ Call("authModule.login", [username |-> DEFAULT_ADMIN.name,
                                  password |-> DEFAULT_ADMIN.password])

\* the window delivers a hashchange or load event: handleRoute() is called.
\* The handler of /logout calls App.logout(), which is left out: the event
\* is delivered for /logout only while nobody is logged in
RouterHandles ==
    /\ Idle
    /\ RouterReady
    /\ window.hashchange > 0
    /\ GetCurrentPath(window) = "/logout" => ~IsAuthenticated
    /\ window' = [window EXCEPT !.hashchange = @ - 1]
    /\ tasks' = Append(tasks, MethodTask("router.handleRoute", None, "top"))
    /\ stack' = <<ActionFrame(Len(tasks) + 1)>>
    /\ UNCHANGED <<busVars, storeVars, ret, budget, ghostBus, ghostStore, lastCall,
                   actions, getters, heap, actionEvents, reads, latest>>
    /\ UNCHANGED <<localStorage, userStorage, authModule, storageLog, appStorage, router>>

\* for (const hook of this.beforeHooks) result = hook(routeContext, ...)
RouteHooks ==
    /\ AtAction
    /\ Statement.op = "beforeEach"
    /\ LET hook == BeforeEach(ThisTask.local.path, IsAuthenticated)
       IN /\ tasks' = [tasks EXCEPT ![Top.task].local = [result |-> hook.result] @@ @,
                                    ![Top.task].pc = @ + 1]
          /\ window' = IF hook.push THEN Push(window, "/login") ELSE window
    /\ UNCHANGED <<busVars, storeVars, stack, ret, budget, ghostBus, ghostStore, lastCall,
                   actions, getters, heap, actionEvents, reads, latest>>
    /\ UNCHANGED <<localStorage, userStorage, authModule, storageLog, appStorage, router>>

\* this.currentRoute = routeContext
RouteEnters ==
    /\ AtAction
    /\ Statement.op = "this.currentRoute"
    /\ router' = [router EXCEPT !.currentRoute = RouteContext(ThisTask.local)]
    /\ tasks' = [tasks EXCEPT ![Top.task].pc = @ + 1]
    /\ UNCHANGED <<busVars, storeVars, stack, ret, budget, ghostBus, ghostStore, lastCall,
                   actions, getters, heap, actionEvents, reads, latest>>
    /\ UNCHANGED <<localStorage, userStorage, authModule, storageLog, appStorage, window>>

\* route.handler(routeContext): the view of the route is shown
RouteHandler ==
    /\ AtAction
    /\ Statement.op = "handler"
    /\ window' = [window EXCEPT !.view = ThisTask.local.match.name]
    /\ tasks' = [tasks EXCEPT ![Top.task].pc = @ + 1]
    /\ UNCHANGED <<busVars, storeVars, stack, ret, budget, ghostBus, ghostStore, lastCall,
                   actions, getters, heap, actionEvents, reads, latest>>
    /\ UNCHANGED <<localStorage, userStorage, authModule, storageLog, appStorage, router>>

\* for (const hook of this.afterHooks) hook(routeContext, prevRoute): the
\* afterEach hook of App.setupRouting() sets the title of the document
RouteAfter ==
    /\ AtAction
    /\ Statement.op = "afterEach"
    /\ window' = [window EXCEPT !.title = ThisTask.local.match.name]
    /\ tasks' = [tasks EXCEPT ![Top.task].pc = @ + 1]
    /\ UNCHANGED <<busVars, storeVars, stack, ret, budget, ghostBus, ghostStore, lastCall,
                   actions, getters, heap, actionEvents, reads, latest>>
    /\ UNCHANGED <<localStorage, userStorage, authModule, storageLog, appStorage, router>>

\* the listeners of user:login and user:logout: router.push(path)
ListenerPushes ==
    /\ AtListener
    /\ CallbackBody(lst[Current].callback, Top.data) = "push"
    /\ window' = Push(window, IF lst[Current].callback = "pushHome" THEN "/" ELSE "/login")
    /\ lifetime' = Called(lifetime, Current)
    /\ rounds' = Ran(rounds, Top, Current)
    /\ stack' = Append(Below, Advance)
    /\ UNCHANGED <<busVars, storeVars, ret, budget, ghostStore, lastCall, dispatchVars,
                   heap>>
    /\ UNCHANGED <<localStorage, userStorage, authModule, storageLog, appStorage, router>>

NextRouter ==
    \/ NewUserStorage
    \/ NewAppStorage
    \/ NewAuthModule
    \/ ModulesData
    \/ NewRouter
    \/ RouterOn
    \/ RouterNavigates
    \/ RouterLogin
    \/ RouterHandles
    \/ RouteHooks
    \/ RouteEnters
    \/ RouteHandler
    \/ RouteAfter
    \/ ListenerPushes
    \/ ActionLets
    \/ ActionBranches
    \/ ActionSetsThis
    \/ ActionStores
    \/ ActionLoads
    \/ ActionEmits
    \/ ActionEmitted
    \/ ActionCommits
    \/ ActionResumes
    \/ ActionSuspends
    \/ CallReturns
    \/ RouterContinues
    \/ ListenerReturns
    \/ ListenerSaves
    \/ EmitReturns
    \/ CommitEmits
    \/ CommitReturns

SpecRouter == Init /\ [][NextRouter]_vars

\* the handling of a navigation that is going on: the call of handleRoute()
\* at the bottom of the stack
Handling == IF stack # <<>> /\ stack[1].kind = "action" THEN stack[1].task ELSE 0

\* the call t of handleRoute() began while no user was authenticated and is
\* for a path other than /login
Unauthenticated(t) ==
    /\ t \in 1..Len(tasks)
    /\ tasks[t].fn = "handleRoute"
    /\ tasks[t].before.currentUser = NoObject
    /\ tasks[t].local # NoObject
    /\ tasks[t].local.path # "/login"

\* C39: while no user is authenticated, handling a navigation to any path
\* other than /login never runs that route's handler nor the afterEach
\* hooks, leaves the router's currentRoute unchanged and publishes no
\* router:change event.
C39_NavigationIsCancelled ==
    [][Unauthenticated(Handling) =>
          /\ window'.view = window.view
          /\ window'.title = window.title
          /\ router'.currentRoute = router.currentRoute
          /\ \A r \in Len(rounds) + 1..Len(rounds') :
                rounds'[r].event # "router:change"]_vars

\* a navigation to /orders/7 was handled to its end with nobody logged in,
\* after a navigation to /login had changed the route
C39_Witness ==
    /\ Idle
    /\ router # NoObject
    /\ router.currentRoute # NoObject
    /\ router.currentRoute.path = "/login"
    /\ window.hash = "#/login"
    /\ \E r \in 1..Len(rounds) : rounds[r].event = "router:change"
    /\ \E t \in 1..Len(tasks) :
          /\ Unauthenticated(t)
          /\ tasks[t].status = "fulfilled"
          /\ tasks[t].local.path = "/orders/7"
          /\ tasks[t].local.match.name = "order-details"

====
